---- MODULE Spec2Model ----
(***************************************************************************)
(* Model of the Ouman EH-800 client (src/src/ouman_eh_800_api/client.py): *)
(* the wire codec, the request/update engine with its login-and-retry on  *)
(* HTTP 404, and the validated set operations.                             *)
(*                                                                         *)
(* Text is modelled as a sequence of symbols.  A symbol is one character   *)
(* ("?", ";", "=", " ", a digit, a letter, NUL for the byte \x00) or one   *)
(* wire identifier such as "S_92_85": the code never looks inside a wire   *)
(* identifier, it only compares, joins and looks them up.                  *)
(*                                                                         *)
(* Numbers: an integer is itself; a float is held in hundredths (155 is    *)
(* the float written 1.55), a rounded float in tenths (16 is 1.6).         *)
(***************************************************************************)
EXTENDS Integers, Sequences, FiniteSets, TLC

\* ------------------------------------------------------------------ bounds
\* How far outside and inside [min_val, max_val] the written values are drawn.
Margin == 1
\* Float inputs are drawn from -MaxHundredths..MaxHundredths (in hundredths)
\* besides the neighbourhoods of the two bounds.
MaxHundredths == 26

\* ------------------------------------------------------------- text helpers
NUL == "NUL"
WS == {" ", "\t", "\n", "\r"}
Digits == <<"0", "1", "2", "3", "4", "5", "6", "7", "8", "9">>

DigitVal(c) == (CHOOSE i \in 1..10 : Digits[i] = c) - 1

IsDigit(c) == \E i \in 1..10 : Digits[i] = c

Contains(s, c) == \E i \in 1..Len(s) : s[i] = c

FirstIndex(s, c) == CHOOSE i \in 1..Len(s) : s[i] = c /\ \A j \in 1..(i - 1) : s[j] # c

\* str.split(c): every segment between occurrences of c.
RECURSIVE Split(_, _)
Split(s, c) ==
  IF ~Contains(s, c) THEN <<s>>
  ELSE LET i == FirstIndex(s, c)
       IN <<SubSeq(s, 1, i - 1)>> \o Split(SubSeq(s, i + 1, Len(s)), c)

\* str.strip(): leading and trailing whitespace removed (NUL is not whitespace).
RECURSIVE LStrip(_)
LStrip(s) == IF s # <<>> /\ Head(s) \in WS THEN LStrip(Tail(s)) ELSE s

RECURSIVE RStrip(_)
RStrip(s) ==
  IF s # <<>> /\ s[Len(s)] \in WS THEN RStrip(SubSeq(s, 1, Len(s) - 1)) ELSE s

StripLeft(s) == LStrip(s)

Strip(s) == RStrip(LStrip(s))

\* ';'.join(parts)
RECURSIVE Join(_, _)
Join(parts, c) ==
  IF parts = <<>> THEN <<>>
  ELSE IF Len(parts) = 1 THEN parts[1]
  ELSE parts[1] \o <<c>> \o Join(Tail(parts), c)

\* --------------------------------------------------------- dict (ordered)
\* A Python dict: a sequence of [k, v] entries in insertion order.
DictHas(d, k) == \E i \in 1..Len(d) : d[i].k = k

DictGet(d, k) == d[CHOOSE i \in 1..Len(d) : d[i].k = k].v

\* A dict whose existing key keeps its first value.
DictSetFirst(d, k, v) == IF DictHas(d, k) THEN d ELSE Append(d, [k |-> k, v |-> v])

\* d[k] = v : an existing key keeps its position and takes the new value.
DictSet(d, k, v) ==
  IF DictHas(d, k)
  THEN [i \in 1..Len(d) |-> IF d[i].k = k THEN [k |-> k, v |-> v] ELSE d[i]]
  ELSE Append(d, [k |-> k, v |-> v])

\* ------------------------------------------------------------- the decoder
RECURSIVE NonBlank(_)
NonBlank(parts) ==
  IF parts = <<>> THEN <<>>
  ELSE IF Strip(Head(parts)) # <<>> THEN <<Head(parts)>> \o NonBlank(Tail(parts))
  ELSE NonBlank(Tail(parts))

DropNul(pairs) ==
  IF pairs # <<>> /\ pairs[Len(pairs)] = <<NUL>>
  THEN SubSeq(pairs, 1, Len(pairs) - 1)
  ELSE pairs

RECURSIVE CollectPairs(_, _)
CollectPairs(pairs, acc) ==
  IF pairs = <<>> THEN acc
  ELSE LET pair == Head(pairs)
       IN IF Contains(pair, "=")
          THEN LET i == FirstIndex(pair, "=")
               IN CollectPairs(Tail(pairs),
                    DictSet(acc, Strip(SubSeq(pair, 1, i - 1)),
                                 Strip(SubSeq(pair, i + 1, Len(pair)))))
          ELSE CollectPairs(Tail(pairs), acc)

NoResponse == [prefix |-> <<>>, values |-> <<>>]

\* _parse_api_response: unpacking the split fails when the text has no '?'.
CanParse(text) == Contains(text, "?")

_parse_api_response_strict(text) ==
  LET i == FirstIndex(text, "?")
      pairs == DropNul(NonBlank(Split(SubSeq(text, i + 1, Len(text)), ";")))
  IN [prefix |-> SubSeq(text, 1, i - 1),
      values |-> IF \E n \in 1..Len(pairs) : ~Contains(pairs[n], "=")
                 THEN <<>> ELSE CollectPairs(pairs, <<>>)]

_parse_api_response(text) ==
  LET i == FirstIndex(text, "?")
      prefix == SubSeq(text, 1, i - 1)
      key_val_str == SubSeq(text, i + 1, Len(text))
      pairs == DropNul(NonBlank(Split(key_val_str, ";")))
  IN [prefix |-> prefix, values |-> CollectPairs(pairs, <<>>)]

\* ----------------------------------------------------------------- numbers
RECURSIVE Pow10(_)
Pow10(n) == IF n = 0 THEN 1 ELSE 10 * Pow10(n - 1)

Abs(n) == IF n < 0 THEN -n ELSE n

\* str(n) for a natural number
RECURSIVE NatToStr(_)
NatToStr(n) ==
  IF n < 10 THEN <<Digits[n + 1]>>
  ELSE NatToStr(n \div 10) \o <<Digits[(n % 10) + 1]>>

\* str(value) of an int
IntToStr(n) == IF n < 0 THEN <<"-">> \o NatToStr(-n) ELSE NatToStr(n)

RECURSIVE DigitsVal(_, _)
DigitsVal(s, acc) ==
  IF s = <<>> THEN acc ELSE DigitsVal(Tail(s), 10 * acc + DigitVal(Head(s)))

AllDigits(s) == \A i \in 1..Len(s) : IsDigit(s[i])

\* float(text): optional sign, digits with at most one point and at least one
\* digit; anything else raises ValueError (ok = FALSE).  The value is
\* mant / 10^places.
ParseFloat(text) ==
  LET s == Strip(text)
      signed == s # <<>> /\ Head(s) \in {"-", "+"}
      body == IF signed THEN Tail(s) ELSE s
      sign == IF signed /\ Head(s) = "-" THEN -1 ELSE 1
      hasPoint == Contains(body, ".")
      ip == IF hasPoint THEN SubSeq(body, 1, FirstIndex(body, ".") - 1) ELSE body
      fp == IF hasPoint THEN SubSeq(body, FirstIndex(body, ".") + 1, Len(body)) ELSE <<>>
      ok == AllDigits(ip) /\ AllDigits(fp) /\ Len(ip) + Len(fp) > 0
  IN IF ok
     THEN [ok |-> TRUE, mant |-> sign * DigitsVal(ip \o fp, 0), places |-> Len(fp)]
     ELSE [ok |-> FALSE, mant |-> 0, places |-> 0]

\* a == b for two numbers mant / 10^places
NumEq(a, b) == a.mant * Pow10(b.places) = b.mant * Pow10(a.places)

\* A float written with two decimals whose last digit is 5 is a tie between two
\* tenths only on paper: the binary double nearest to it lies above it, below
\* it, or (for the quarters x.25 and x.75) exactly on it.  DoubleAbove lists the
\* hundredths 5..495 whose double lies above the written value.
DoubleAbove ==
  {5, 45, 55, 65, 105, 135, 155, 185, 235, 245, 285, 295, 335, 345, 385, 395,
   415, 445, 465, 495}

IsExactHalf(a) == a % 10 = 5 /\ a % 25 = 0

\* Rounding to one decimal with every written half going away from zero.
RoundHalfAway(value) ==
  LET a == Abs(value)
      mag == IF a % 10 >= 5 THEN (a \div 10) + 1 ELSE a \div 10
  IN IF value < 0 THEN -mag ELSE mag

\* round(value, 1): the tenth nearest to the double's exact value, an exact
\* tie going to the even tenth.  value in hundredths, result in tenths.
Round1(value) ==
  LET a == Abs(value)
      t == a \div 10
      r == a % 10
      up == \/ r > 5
            \/ r = 5 /\ a \in DoubleAbove
            \/ r = 5 /\ IsExactHalf(a) /\ t % 2 = 1
      mag == IF up THEN t + 1 ELSE t
  IN IF value < 0 THEN -mag ELSE mag

\* str(rounded) of a float with one decimal; negative tells the sign of a zero.
FloatToStr(t, negative) ==
  (IF negative THEN <<"-">> ELSE <<>>)
    \o NatToStr(Abs(t) \div 10) \o <<".">> \o <<Digits[(Abs(t) % 10) + 1]>>

\* --------------------------------------------------------------- endpoints
\* The endpoints the client imports.  control_endpoint_ids holds the single
\* control_endpoint_id of an int or float control; min_val and max_val of a
\* float control are in hundredths (-4.0 is -400).
OPERATION_MODE ==
  [kind |-> "enum", name |-> "l1_operation_mode", sensor_endpoint_id |-> "S_59_85",
   control_endpoint_ids |-> <<"S_59_85">>, response_endpoint_ids |-> <<"S_59_85">>,
   min_val |-> 0, max_val |-> 0, enum_type |-> "OperationMode"]

VALVE_POSITION_SETPOINT ==
  [kind |-> "int", name |-> "l1_valve_position_setpoint", sensor_endpoint_id |-> "S_92_85",
   control_endpoint_ids |-> <<"S_92_85">>, response_endpoint_ids |-> <<>>,
   min_val |-> 0, max_val |-> 100, enum_type |-> "none"]

CURVE_MINUS_20_TEMP ==
  [kind |-> "int", name |-> "l1_curve_minus_20_temperature", sensor_endpoint_id |-> "S_61_85",
   control_endpoint_ids |-> <<"@_S_61_85">>, response_endpoint_ids |-> <<>>,
   min_val |-> 0, max_val |-> 99, enum_type |-> "none"]

CURVE_0_TEMP ==
  [kind |-> "int", name |-> "l1_curve_0_temperature", sensor_endpoint_id |-> "S_63_85",
   control_endpoint_ids |-> <<"@_S_63_85">>, response_endpoint_ids |-> <<>>,
   min_val |-> 0, max_val |-> 99, enum_type |-> "none"]

CURVE_20_TEMP ==
  [kind |-> "int", name |-> "l1_curve_20_temperature", sensor_endpoint_id |-> "S_65_85",
   control_endpoint_ids |-> <<"@_S_65_85">>, response_endpoint_ids |-> <<>>,
   min_val |-> 0, max_val |-> 99, enum_type |-> "none"]

TEMPERATURE_DROP ==
  [kind |-> "int", name |-> "l1_temperature_drop", sensor_endpoint_id |-> "S_89_85",
   control_endpoint_ids |-> <<"@_S_89_85">>, response_endpoint_ids |-> <<>>,
   min_val |-> 0, max_val |-> 90, enum_type |-> "none"]

BIG_TEMPERATURE_DROP ==
  [kind |-> "int", name |-> "l1_big_temperature_drop", sensor_endpoint_id |-> "S_90_85",
   control_endpoint_ids |-> <<"@_S_90_85">>, response_endpoint_ids |-> <<>>,
   min_val |-> 0, max_val |-> 90, enum_type |-> "none"]

WATER_OUT_MIN_TEMP ==
  [kind |-> "int", name |-> "l1_water_out_minimum_temperature", sensor_endpoint_id |-> "S_54_85",
   control_endpoint_ids |-> <<"@_S_54_85">>, response_endpoint_ids |-> <<>>,
   min_val |-> 5, max_val |-> 95, enum_type |-> "none"]

WATER_OUT_MAX_TEMP ==
  [kind |-> "int", name |-> "l1_water_out_maximum_temperature", sensor_endpoint_id |-> "S_55_85",
   control_endpoint_ids |-> <<"@_S_55_85">>, response_endpoint_ids |-> <<>>,
   min_val |-> 5, max_val |-> 95, enum_type |-> "none"]

ROOM_TEMPERATURE_FINE_TUNING ==
  [kind |-> "float", name |-> "l1_room_temperature_fine_tuning", sensor_endpoint_id |-> "S_134_85",
   control_endpoint_ids |-> <<"@_S_134_85">>, response_endpoint_ids |-> <<>>,
   min_val |-> -400, max_val |-> 400, enum_type |-> "none"]

ROOM_TEMPERATURE_FINE_TUNING_WITH_SENSOR ==
  [kind |-> "float", name |-> "l1_room_temperature_fine_tuning_with_sensor", sensor_endpoint_id |-> "S_102_85",
   control_endpoint_ids |-> <<"@_S_102_85">>, response_endpoint_ids |-> <<>>,
   min_val |-> -400, max_val |-> 400, enum_type |-> "none"]

TREND_SAMPLE_INTERVAL ==
  [kind |-> "int", name |-> "trend_sampling_interval", sensor_endpoint_id |-> "S_26_85",
   control_endpoint_ids |-> <<"@_S_26_85">>, response_endpoint_ids |-> <<>>,
   min_val |-> 30, max_val |-> 21600, enum_type |-> "none"]

HOME_AWAY_MODE ==
  [kind |-> "enum", name |-> "home_away_mode", sensor_endpoint_id |-> "S_135_85",
   control_endpoint_ids |-> <<"S_135_85", "S_222_85">>, response_endpoint_ids |-> <<"S_222_85">>,
   min_val |-> 0, max_val |-> 0, enum_type |-> "HomeAwayControl"]

IntEndpoints ==
  {VALVE_POSITION_SETPOINT, CURVE_MINUS_20_TEMP, CURVE_0_TEMP, CURVE_20_TEMP,
   TEMPERATURE_DROP, BIG_TEMPERATURE_DROP, WATER_OUT_MIN_TEMP, WATER_OUT_MAX_TEMP,
   TREND_SAMPLE_INTERVAL}

FloatEndpoints == {ROOM_TEMPERATURE_FINE_TUNING, ROOM_TEMPERATURE_FINE_TUNING_WITH_SENSOR}

EnumEndpoints == {OPERATION_MODE, HOME_AWAY_MODE}

NoEndpoint ==
  [kind |-> "none", name |-> "none", sensor_endpoint_id |-> "none",
   control_endpoint_ids |-> <<>>, response_endpoint_ids |-> <<>>,
   min_val |-> 0, max_val |-> 0, enum_type |-> "none"]

\* The wire values of the two control enumerations.
EnumMembers(enum_type) ==
  IF enum_type = "OperationMode" THEN {"0", "1", "2", "3", "5", "6"}
  ELSE IF enum_type = "HomeAwayControl" THEN {"0", "1", "2"}
  ELSE {}

NoEnum == [type |-> "none", wire |-> "none"]

\* The keys of ENDPOINTS, in declaration order.
ENDPOINTS ==
  <<"S_227_85", "S_135_85", "S_222_85", "S_26_85", "S_0_0", "S_1000_0",
    "S_54_85", "S_55_85", "S_59_85", "S_61_85", "S_63_85", "S_65_85",
    "S_89_85", "S_90_85", "S_92_85", "S_102_85", "S_131_85", "S_134_85",
    "S_259_85", "S_261_85", "S_272_85", "S_275_85", "S_278_85", "S_274_85",
    "S_307_85", "S_1001_0", "S_141_85", "S_142_85", "S_146_85", "S_148_85",
    "S_150_85", "S_152_85", "S_176_85", "S_177_85", "S_179_85", "S_189_85",
    "S_218_85", "S_221_85", "S_293_85", "S_295_85", "S_310_85", "S_313_85",
    "S_140_85", "S_261_111", "S_295_111", "S_1002_85", "S_1004_0",
    "S_1004_85">>

\* ------------------------------------------------------- results and errors
NoErr == [cls |-> "none", msg |-> "none", cause |-> "none", status |-> 0]

Err(cls, msg, cause, status) ==
  [cls |-> cls, msg |-> msg, cause |-> cause, status |-> status]

\* returns names the type of the object a call returned.
NoResult == [kind |-> "none", err |-> NoErr, response |-> NoResponse, returns |-> "none"]

Return(response) ==
  [kind |-> "return", err |-> NoErr, response |-> response, returns |-> "OumanResponse"]

ReturnNone ==
  [kind |-> "return", err |-> NoErr, response |-> NoResponse, returns |-> "None"]

Raise(err) == [kind |-> "raise", err |-> err, response |-> NoResponse, returns |-> "none"]

CommunicationError == "OumanClientCommunicationError"
AuthenticationError == "OumanClientAuthenticationError"
ClientError == "OumanClientError"

\* ---------------------------------------------------------------- transport
\* What the session's GET can do: time out, fail on the network, or answer
\* with a status and a body.
Timeout == [t |-> "timeout", status |-> 0, body |-> <<>>]

NetworkFailure == [t |-> "neterr", status |-> 0, body |-> <<>>]

Http(status, body) == [t |-> "http", status |-> status, body |-> body]

Statuses == {200, 304, 404, 500}

\* response.raise_for_status(): aiohttp raises ClientResponseError for a
\* status of 400 or above.
RaiseForStatusNon2xx(status) == status < 200 \/ status > 299

RaiseForStatus(status) == status >= 400

\* _request, from the transport's outcome on
_request(o) ==
  IF o.t = "timeout"
  THEN Raise(Err(CommunicationError, "Timeout connecting to device", "TimeoutError", 0))
  ELSE IF o.t = "http" /\ RaiseForStatus(o.status)
  THEN Raise(Err(CommunicationError, "HTTP Error", "ClientResponseError", o.status))
  ELSE IF o.t = "neterr"
  THEN Raise(Err(CommunicationError, "Network error", "ClientError", 0))
  ELSE IF ~CanParse(o.body)
  THEN Raise(Err("ValueError", "not enough values to unpack", "none", 0))
  ELSE Return(_parse_api_response(o.body))

ResultIs(response, word) ==
  DictHas(response.values, <<"result">>) /\ DictGet(response.values, <<"result">>) = <<word>>

\* login, from the outcome of its request on
loginAuthForOther(r) ==
  IF r.kind = "raise" THEN r
  ELSE IF ResultIs(r.response, "ok") THEN r
  ELSE Raise(Err(AuthenticationError, "Wrong username or password", "none", 0))

login(r) ==
  IF r.kind = "raise" THEN r
  ELSE IF ResultIs(r.response, "ok") THEN r
  ELSE IF ResultIs(r.response, "error")
  THEN Raise(Err(AuthenticationError, "Wrong username or password", "none", 0))
  ELSE Raise(Err(ClientError, "Unexpected response from login request", "none", 0))

\* logout, from the outcome of its request on
logoutAsLogin(r) == login(r)

logout(r) ==
  IF r.kind = "raise" THEN r
  ELSE IF ~ResultIs(r.response, "ok")
  THEN Raise(Err(ClientError, "Unexpected response from logout request", "none", 0))
  ELSE r

\* result.values.get(id) is missing or empty
Falsy(response, id) ==
  ~DictHas(response.values, <<id>>) \/ DictGet(response.values, <<id>>) = <<>>

\* A confirmation that accepts any number under the ID.
ConfirmNumberAny(endpoint, expected, response, what) ==
  IF Falsy(response, endpoint.sensor_endpoint_id)
  THEN Raise(Err(ClientError, "Endpoint ID missing", "none", 0))
  ELSE IF ~ParseFloat(DictGet(response.values, <<endpoint.sensor_endpoint_id>>)).ok
  THEN Raise(Err(ClientError, "cannot be parsed into a float", "ValueError", 0))
  ELSE Return(response)

\* The confirmation of _set_int_endpoint and _set_float_endpoint: expected is
\* the written number as mant / 10^places.
ConfirmNumber(endpoint, expected, response, what) ==
  IF Falsy(response, endpoint.sensor_endpoint_id)
  THEN Raise(Err(ClientError, "Endpoint ID missing", "none", 0))
  ELSE LET float_result == ParseFloat(DictGet(response.values, <<endpoint.sensor_endpoint_id>>))
       IN IF ~float_result.ok
          THEN Raise(Err(ClientError, "cannot be parsed into a float", "ValueError", 0))
          ELSE IF ~NumEq(float_result, expected)
          THEN Raise(Err(ClientError, what, "none", 0))
          ELSE Return(response)

\* A confirmation that only looks for the response IDs.
ConfirmEnumAny(endpoint, value, response) ==
  IF \E i \in 1..Len(endpoint.response_endpoint_ids) :
       Falsy(response, endpoint.response_endpoint_ids[i])
  THEN Raise(Err(ClientError, "Endpoint ID missing", "none", 0))
  ELSE Return(response)

\* The confirmation of _set_enum_endpoint: every response ID present, then the
\* value under the last one compared with the written value.
ConfirmEnum(endpoint, value, response) ==
  LET ids == endpoint.response_endpoint_ids
  IN IF \E i \in 1..Len(ids) : Falsy(response, ids[i])
     THEN Raise(Err(ClientError, "Endpoint ID missing", "none", 0))
     ELSE IF DictGet(response.values, <<ids[Len(ids)]>>) # <<value.wire>>
     THEN Raise(Err(ClientError, "does not match", "none", 0))
     ELSE Return(response)

\* ------------------------------------------------------------ what is sent
Request(path, params) == [path |-> path, params |-> params]

username == <<"user">>
password == <<"password">>

LoginRequest == Request("login", <<<<"uid", "=">> \o username, <<"pwd", "=">> \o password>>)

\* The text written for the value of a set operation: str(value),
\* str(round(value, 1)), or the enumeration member's own string.
WireTextRaw(kind, value, enum) ==
  IF kind = "int" THEN IntToStr(value)
  ELSE IF kind = "float"
  THEN (IF value < 0 THEN <<"-">> ELSE <<>>)
         \o NatToStr(Abs(value) \div 100) \o <<".">>
         \o <<Digits[((Abs(value) \div 10) % 10) + 1]>> \o <<Digits[(Abs(value) % 10) + 1]>>
  ELSE <<enum.wire>>

WireText(kind, value, enum) ==
  IF kind = "int" THEN IntToStr(value)
  ELSE IF kind = "float" THEN FloatToStr(Round1(value), value < 0)
  ELSE <<enum.wire>>

\* params = [f"{key}={value}" ...] of _update_values, over the params mapping
\* the set operation builds: one entry per control ID.
UpdateParamsFirstOnly(o) ==
  <<<<o.endpoint.control_endpoint_ids[1], "=">> \o WireText(o.endpoint.kind, o.value, o.enum)>>

UpdateParams(o) ==
  [i \in 1..Len(o.endpoint.control_endpoint_ids) |->
     <<o.endpoint.control_endpoint_ids[i], "=">> \o WireText(o.endpoint.kind, o.value, o.enum)]

UpdateRequest(o) == Request("update", UpdateParams(o))

\* The request of the retry after the login: the same path and params.
RetryRequestBare(o) == Request("update", <<>>)

RetryRequest(o) == UpdateRequest(o)

\* The value text of a request's first param, after its '='.
ParamText(request) ==
  SubSeq(request.params[1], FirstIndex(request.params[1], "=") + 1, Len(request.params[1]))

\* ------------------------------------------------------ what the device says
Body(prefix, pairs) == <<prefix, "?">> \o Join(pairs, ";") \o <<";", NUL>>

\* Bodies answering login, logout, request and alarms.
CommonBodies(path) ==
  { Body(path, <<<<"result", "=", "ok">>>>),
    Body(path, <<<<"result", "=", "error">>>>),
    Body(path, <<<<"result", "=", "busy">>>>),
    Body(path, <<<<"S_0_0", "=", "ok">>>>),
    Body(path, <<<<" ", "result", " ", "=", " ", "ok", " ">>>>),
    Body(path, <<<<"junk">>, <<"result", "=", "ok">>>>),
    <<path, "?">>,
    <<path>>,
    <<>> }

\* Bodies answering an update: the echo of the written text under the IDs the
\* confirmation reads, and the ways an answer can fall short of it.
ConfirmIds(endpoint) ==
  IF endpoint.kind = "enum" THEN endpoint.response_endpoint_ids
  ELSE <<endpoint.sensor_endpoint_id>>

EchoBody(o, text) ==
  Body("update", [i \in 1..Len(ConfirmIds(o.endpoint)) |->
                    <<ConfirmIds(o.endpoint)[i], "=">> \o text])

UpdateBodies(o) ==
  LET w == WireText(o.endpoint.kind, o.value, o.enum)
  IN { EchoBody(o, w),
       EchoBody(o, w \o <<"1">>),
       EchoBody(o, <<" ">> \o w \o <<" ">>),
       EchoBody(o, <<"abc">>),
       EchoBody(o, <<>>),
       Body("update", <<<<"S_0_0", "=">> \o w>>),
       <<"update">> }
     \cup (IF o.endpoint.kind = "int" THEN {EchoBody(o, w \o <<".", "0">>)} ELSE {})
     \cup (IF o.endpoint.kind = "float"
           THEN {EchoBody(o, WireTextRaw("float", o.value, o.enum))} ELSE {})

Outcomes(bodies) ==
  {Timeout, NetworkFailure}
    \cup {Http(status, <<>>) : status \in {st \in Statuses : RaiseForStatus(st)}}
    \cup {Http(status, body) : status \in {st \in Statuses : ~RaiseForStatus(st)},
                               body \in bodies}

\* ------------------------------------------------------- the values written
IntValues(endpoint) ==
  ((endpoint.min_val - Margin)..(endpoint.min_val + Margin))
    \cup ((endpoint.max_val - Margin)..(endpoint.max_val + Margin))
    \cup {(endpoint.min_val + endpoint.max_val) \div 2}

FloatValues(endpoint) ==
  ((endpoint.min_val - Margin)..(endpoint.min_val + Margin))
    \cup ((endpoint.max_val - Margin)..(endpoint.max_val + Margin))
    \cup ((-MaxHundredths)..MaxHundredths)
    \cup {35, 75, 150, 155}

EnumValues ==
  {[type |-> ty, wire |-> w] : ty \in {"OperationMode", "HomeAwayControl", "str"},
                               w \in {"0", "1", "5"}}
    \ {[type |-> "HomeAwayControl", wire |-> "5"]}

\* ------------------------------------------------------------------- state
VARIABLES
  pc,       \* where the client is: "idle", or the request it awaits
  op,       \* the operation called last: its name, endpoint and value
  sent,     \* the requests that operation has sent, in order
  replies,  \* the transport's outcome for each of them
  result,   \* what the operation returned or raised
  session,  \* the device's side of the session
  caches,   \* the lru_cache of each cached classmethod of OumanRegistry
  computed  \* the cached classmethods' bodies run so far, in order

vars == <<pc, op, sent, replies, result, session, caches, computed>>

\* What the client's own operations never touch.
env == <<session, caches, computed>>

\* An lru_cache holds its entries oldest first.
NoCaches == [get_sensor_endpoint_ids |-> <<>>, _sensor_id_endpoint_map |-> <<>>]

\* input is the value set_endpoint_value was called with, when the operation
\* was entered through it.
NoInput == [type |-> "none", num |-> 0, wire |-> "none"]

Op(name, endpoint, value, enum) ==
  [name |-> name, endpoint |-> endpoint, value |-> value, enum |-> enum,
   input |-> NoInput]

Init ==
  /\ pc = "idle"
  /\ session = "untracked"
  /\ caches = NoCaches
  /\ computed = <<>>
  /\ op = Op("none", NoEndpoint, 0, NoEnum)
  /\ sent = <<>>
  /\ replies = <<>>
  /\ result = NoResult

\* A call sends its first request and awaits the answer.
Start(o, request, await) ==
  /\ op' = o
  /\ sent' = <<request>>
  /\ replies' = <<>>
  /\ result' = NoResult
  /\ pc' = await

\* A call fails before any request.
Reject(o, err) ==
  /\ op' = o
  /\ sent' = <<>>
  /\ replies' = <<>>
  /\ result' = Raise(err)
  /\ pc' = "idle"

Finish(o, r) ==
  /\ replies' = Append(replies, o)
  /\ result' = r
  /\ pc' = "idle"
  /\ UNCHANGED <<op, sent>>

\* ---- the operations of one request
CallLogin ==
  /\ pc = "idle"
  /\ Start(Op("login", NoEndpoint, 0, NoEnum), LoginRequest, "await_request")
  /\ UNCHANGED env

CallLogout ==
  /\ pc = "idle"
  /\ Start(Op("logout", NoEndpoint, 0, NoEnum), Request("logout", <<>>), "await_request")
  /\ UNCHANGED env

CallGetValues ==
  /\ pc = "idle"
  /\ Start(Op("get_values", NoEndpoint, 0, NoEnum),
           Request("request", [i \in 1..Len(ENDPOINTS) |-> <<ENDPOINTS[i]>>]),
           "await_request")
  /\ UNCHANGED env

CallGetAlarms ==
  /\ pc = "idle"
  /\ Start(Op("get_alarms", NoEndpoint, 0, NoEnum), Request("alarms", <<>>), "await_request")
  /\ UNCHANGED env

\* The warnings get_values logs: one for every requested param that the
\* response lacks.
NotFound(response) ==
  {<<"not found in response", ENDPOINTS[i]>> :
     i \in {i \in 1..Len(ENDPOINTS) : ~DictHas(response.values, <<ENDPOINTS[i]>>)}}

\* get_values, from the outcome of its request on: it returns None
get_values(r) ==
  IF r.kind = "raise" THEN r
  ELSE [kind |-> "return", err |-> NoErr, response |-> NoResponse, returns |-> "None",
        warnings |-> NotFound(r.response)]

\* The one request answered, with a login on 404 as _update_values has it.
RecvRequestRelogin ==
  /\ pc = "await_request"
  /\ \E o \in Outcomes(CommonBodies(sent[1].path)) :
       LET r == _request(o)
       IN IF r.kind = "raise" /\ r.err.status = 404
          THEN /\ replies' = Append(replies, o)
               /\ sent' = Append(sent, LoginRequest)
               /\ pc' = "await_login"
               /\ UNCHANGED <<op, result>>
          ELSE Finish(o, CASE op.name = "login" -> login(r)
                           [] op.name = "logout" -> logout(r)
                           [] op.name = "get_values" -> get_values(r)
                           [] OTHER -> r)
  /\ UNCHANGED env

\* The one request of login, logout, get_values or get_alarms answered.
RecvRequest ==
  /\ pc = "await_request"
  /\ \E o \in Outcomes(CommonBodies(sent[1].path)) :
       LET r == _request(o)
       IN Finish(o, CASE op.name = "login" -> login(r)
                      [] op.name = "logout" -> logout(r)
                      [] op.name = "get_values" -> get_values(r)
                      [] OTHER -> r)
  /\ UNCHANGED env

\* ---- the set operations, up to their update request
InBoundsExclusive(endpoint, value) == endpoint.min_val < value /\ value < endpoint.max_val

InBounds(endpoint, value) == endpoint.min_val <= value /\ value <= endpoint.max_val

OutOfBounds == Err("ValueError", "out of bounds", "none", 0)

CallSetIntUnchecked ==
  /\ pc = "idle"
  /\ \E endpoint \in IntEndpoints : \E value \in IntValues(endpoint) :
       LET o == Op("_set_int_endpoint", endpoint, value, NoEnum)
       IN Start(o, UpdateRequest(o), "await_update")
  /\ UNCHANGED env

CallSetInt ==
  /\ pc = "idle"
  /\ \E endpoint \in IntEndpoints : \E value \in IntValues(endpoint) :
       LET o == Op("_set_int_endpoint", endpoint, value, NoEnum)
       IN IF ~InBounds(endpoint, value)
          THEN Reject(o, OutOfBounds)
          ELSE Start(o, UpdateRequest(o), "await_update")
  /\ UNCHANGED env

CallSetFloat ==
  /\ pc = "idle"
  /\ \E endpoint \in FloatEndpoints : \E value \in FloatValues(endpoint) :
       LET o == Op("_set_float_endpoint", endpoint, value, NoEnum)
       IN IF ~InBounds(endpoint, value)
          THEN Reject(o, OutOfBounds)
          ELSE Start(o, UpdateRequest(o), "await_update")
  /\ UNCHANGED env

IsInstance(value, enum_type) == value.type = enum_type

CallSetEnum ==
  /\ pc = "idle"
  /\ \E endpoint \in EnumEndpoints : \E value \in EnumValues :
       LET o == Op("_set_enum_endpoint", endpoint, 0, value)
       IN IF ~IsInstance(value, endpoint.enum_type)
          THEN Reject(o, Err("TypeError", "Unexpected type", "none", 0))
          ELSE Start(o, UpdateRequest(o), "await_update")
  /\ UNCHANGED env

\* ---- set_endpoint_value
\* SystemEndpoints.OUTSIDE_TEMPERATURE, a numeric endpoint without control IDs.
OUTSIDE_TEMPERATURE ==
  [kind |-> "number", name |-> "outside_temperature", sensor_endpoint_id |-> "S_227_85",
   control_endpoint_ids |-> <<>>, response_endpoint_ids |-> <<>>,
   min_val |-> 0, max_val |-> 0, enum_type |-> "none"]

\* The values set_endpoint_value is called with: an int, a float (num in
\* hundredths), a string, an enumeration member.
InputValues ==
  {[type |-> "int", num |-> n, wire |-> "none"] : n \in {1, 50}}
    \cup {[type |-> "float", num |-> h, wire |-> "none"] : h \in {150, 5000, 5050}}
    \cup {[type |-> "str", num |-> 0, wire |-> "5"]}
    \cup {[type |-> "OperationMode", num |-> 0, wire |-> "0"]}

InputEndpoints ==
  {VALVE_POSITION_SETPOINT, ROOM_TEMPERATURE_FINE_TUNING, OPERATION_MODE, OUTSIDE_TEMPERATURE}

ControllableAny(endpoint) == TRUE

Controllable(endpoint) == endpoint.kind \in {"int", "float", "enum"}

Numeric(v) == v.type \in {"int", "float"}

IntegerValuedAny(v) == TRUE

IntegerValued(v) == v.type = "int" \/ v.num % 100 = 0

IsControlEnum(v) == v.type \in {"OperationMode", "HomeAwayControl"}

\* The private set operation a valid value is handed to.
Delegate(endpoint, v) ==
  IF endpoint.kind = "int"
  THEN [Op("_set_int_endpoint", endpoint,
           IF v.type = "int" THEN v.num ELSE v.num \div 100, NoEnum) EXCEPT !.input = v]
  ELSE IF endpoint.kind = "float"
  THEN [Op("_set_float_endpoint", endpoint,
           IF v.type = "int" THEN v.num * 100 ELSE v.num, NoEnum) EXCEPT !.input = v]
  ELSE [Op("_set_enum_endpoint", endpoint, 0, [type |-> v.type, wire |-> v.wire])
          EXCEPT !.input = v]

\* The checks of the private set operation before its request.
BeginSet(o) ==
  IF o.endpoint.kind = "enum"
  THEN IF ~IsInstance(o.enum, o.endpoint.enum_type)
       THEN Reject(o, Err("TypeError", "Unexpected type", "none", 0))
       ELSE Start(o, UpdateRequest(o), "await_update")
  ELSE IF ~InBounds(o.endpoint, o.value)
       THEN Reject(o, OutOfBounds)
       ELSE Start(o, UpdateRequest(o), "await_update")

set_endpoint_value(endpoint, v) ==
  LET o == [Op("set_endpoint_value", endpoint, 0, NoEnum) EXCEPT !.input = v]
  IN IF ~Controllable(endpoint)
     THEN Reject(o, Err("TypeError", "not a controllable endpoint", "none", 0))
     ELSE IF endpoint.kind \in {"int", "float"} /\ ~Numeric(v)
     THEN Reject(o, Err("TypeError", "must be numeric", "none", 0))
     ELSE IF endpoint.kind = "int" /\ ~IntegerValued(v)
     THEN Reject(o, Err("ValueError", "must be an integer", "none", 0))
     ELSE IF endpoint.kind \notin {"int", "float"} /\ ~IsControlEnum(v)
     THEN Reject(o, Err("TypeError", "must be a ControlEnum", "none", 0))
     ELSE BeginSet(Delegate(endpoint, v))

CallSetEndpointValue ==
  /\ pc = "idle"
  /\ \E endpoint \in InputEndpoints : \E v \in InputValues :
       set_endpoint_value(endpoint, v)
  /\ UNCHANGED env

\* What the set operation makes of the response _update_values returned.
Confirm(o, response) ==
  IF o.endpoint.kind = "int"
  THEN ConfirmNumber(o.endpoint, [mant |-> o.value, places |-> 0], response,
                     "Returned float does not match set int value")
  ELSE IF o.endpoint.kind = "float"
  THEN ConfirmNumber(o.endpoint, [mant |-> Round1(o.value), places |-> 1], response,
                     "Returned float does not match set value")
  ELSE ConfirmEnum(o.endpoint, o.enum, response)

\* ---- _update_values
\* `return response` with response never bound
Unbound == Err("UnboundLocalError", "response", "none", 0)

\* A client that takes a 404 like any other error status of the update.
OnUpdateNoLogin(o) ==
  LET r == _request(o)
  IN IF r.kind = "return"
     THEN Finish(o, Confirm(op, r.response))
     ELSE Finish(o, r)

\* The first update answered.
OnUpdate(o) ==
  LET r == _request(o)
  IN IF r.kind = "return"
     THEN Finish(o, Confirm(op, r.response))
     ELSE IF r.err.cls # CommunicationError
     THEN Finish(o, r)
     ELSE IF r.err.cause # "ClientResponseError"
     THEN Finish(o, r)
     ELSE IF r.err.status = 404
     THEN /\ replies' = Append(replies, o)
          /\ sent' = Append(sent, LoginRequest)
          /\ pc' = "await_login"
          /\ UNCHANGED <<op, result>>
     ELSE Finish(o, Raise(Unbound))

RecvUpdate ==
  /\ pc = "await_update"
  /\ \E o \in Outcomes(UpdateBodies(op)) : OnUpdate(o)
  /\ UNCHANGED env

\* A client that retries the update whatever became of the login.
OnLoginRetryAnyway(o) ==
  /\ replies' = Append(replies, o)
  /\ sent' = Append(sent, RetryRequest(op))
  /\ pc' = "await_retry"
  /\ UNCHANGED <<op, result>>

\* The login after a 404 answered.
OnLogin(o) ==
  LET r == login(_request(o))
  IN IF r.kind = "raise"
     THEN Finish(o, r)
     ELSE /\ replies' = Append(replies, o)
          /\ sent' = Append(sent, RetryRequest(op))
          /\ pc' = "await_retry"
          /\ UNCHANGED <<op, result>>

RecvLogin ==
  /\ pc = "await_login"
  /\ \E o \in Outcomes(CommonBodies("login")) : OnLogin(o)
  /\ UNCHANGED env

\* The retried update answered.
OnRetry(o) ==
  LET r == _request(o)
  IN IF r.kind = "return"
     THEN Finish(o, Confirm(op, r.response))
     ELSE Finish(o, r)

RecvRetry ==
  /\ pc = "await_retry"
  /\ \E o \in Outcomes(UpdateBodies(op)) : OnRetry(o)
  /\ UNCHANGED env

Next ==
  \/ CallLogin
  \/ CallLogout
  \/ CallGetValues
  \/ CallGetAlarms
  \/ RecvRequest
  \/ CallSetInt
  \/ CallSetFloat
  \/ CallSetEnum
  \/ CallSetEndpointValue
  \/ RecvUpdate
  \/ RecvLogin
  \/ RecvRetry

Spec == Init /\ [][Next]_vars

\* ================================================= the session with a device
\* The client against a device that keeps a session: it answers an update
\* with 404 unless the session is authenticated, accepts the configured
\* credentials, and echoes a written value under the IDs the client reads.
\* session is "never" (no login yet), "authenticated", "logged_out" or
\* "expired".
DeviceUpdateAnswer(request) ==
  IF session # "authenticated" THEN Http(404, <<>>)
  ELSE IF request.params = <<>> THEN Http(200, Body("update", <<>>))
  ELSE Http(200, EchoBody(op, ParamText(request)))

DeviceLoginAnswer(request) ==
  IF request = LoginRequest
  THEN Http(200, Body("login", <<<<"result", "=", "ok">>>>))
  ELSE Http(200, Body("login", <<<<"result", "=", "error">>>>))

InitSession ==
  /\ pc = "idle"
  /\ session = "never"
  /\ caches = NoCaches
  /\ computed = <<>>
  /\ op = Op("none", NoEndpoint, 0, NoEnum)
  /\ sent = <<>>
  /\ replies = <<>>
  /\ result = NoResult

DeviceUpdate ==
  /\ pc = "await_update"
  /\ OnUpdate(DeviceUpdateAnswer(sent[Len(sent)]))
  /\ UNCHANGED env

DeviceLogin ==
  /\ pc = "await_login"
  /\ OnLogin(DeviceLoginAnswer(sent[Len(sent)]))
  /\ session' = IF sent[Len(sent)] = LoginRequest THEN "authenticated" ELSE session
  /\ UNCHANGED <<caches, computed>>

DeviceRetry ==
  /\ pc = "await_retry"
  /\ OnRetry(DeviceUpdateAnswer(sent[Len(sent)]))
  /\ UNCHANGED env

DeviceLogout ==
  /\ pc = "await_request" /\ op.name = "logout"
  /\ LET o == Http(200, Body("logout", <<<<"result", "=", "ok">>>>))
     IN Finish(o, logout(_request(o)))
  /\ session' = "logged_out"
  /\ UNCHANGED <<caches, computed>>

\* The device drops the session while the client is between operations.
Expire ==
  /\ pc = "idle" /\ session = "authenticated"
  /\ session' = "expired"
  /\ UNCHANGED <<pc, op, sent, replies, result, caches, computed>>

NextSession ==
  \/ CallSetInt
  \/ CallSetFloat
  \/ CallSetEnum
  \/ CallLogout
  \/ DeviceUpdate
  \/ DeviceLogin
  \/ DeviceRetry
  \/ DeviceLogout
  \/ Expire

\* The positions at which _update_values awaits the device.
Awaiting == {"await_update", "await_login", "await_retry"}

\* A request in flight is answered: under NextSession the steps that leave an
\* awaiting position are exactly those of DeviceUpdate, DeviceLogin and
\* DeviceRetry.
Answered ==
  /\ pc \in Awaiting
  /\ pc' \in {"idle", "await_login", "await_retry"}

\* Every request is answered: the device is up and _request awaits under the
\* session's timeout.
SpecSession ==
  /\ InitSession /\ [][NextSession]_vars
  /\ WF_pc(Answered)

\* ======================================================= decoder and encoder
\* _parse_api_response and _construct_request_url applied to inputs drawn from
\* bounded sets; op is the call, result what it returned.
MaxSegs == 3

MaxParams == 3

\* One segment of a response body: key=value, bare or padded with spaces, or
\* (eq = FALSE) a text without '=' held in key.
Seg(key, value, pad) == [eq |-> TRUE, key |-> key, value |-> value, pad |-> pad]

Malformed(text) == [eq |-> FALSE, key |-> text, value |-> <<>>, pad |-> FALSE]

Segments ==
  {Seg(<<k>>, v, FALSE) : k \in {"k1", "k2", "k3"}, v \in {<<"v">>, <<"a", "=", "b", "?">>}}
    \cup {Seg(<<k>>, <<"v">>, TRUE) : k \in {"k1", "k2", "k3"}}
    \cup {Seg(<<"k1">>, <<>>, FALSE)}
    \cup {Malformed(<<"junk">>), Malformed(<<NUL>>), Malformed(<<" ">>)}

SegText(g) ==
  IF ~g.eq THEN g.key
  ELSE IF g.pad THEN <<" ">> \o g.key \o <<" ", "=", " ">> \o g.value \o <<" ">>
  ELSE g.key \o <<"=">> \o g.value

NulTail == <<";", NUL>>

ResponseText(call) ==
  call.prefix \o <<"?">>
    \o Join([i \in 1..Len(call.segs) |-> SegText(call.segs[i])], ";")
    \o call.tail

DecodeCalls ==
  {[name |-> "_parse_api_response", prefix |-> prefix, segs |-> segs, tail |-> tail] :
     prefix \in {<<"request">>, <<>>},
     segs \in UNION {[1..n -> Segments] : n \in 0..MaxSegs},
     tail \in {NulTail, <<>>}}

\* formatdate(..., usegmt=True) of two instants
Timestamps ==
  {<<"Thu", ",", " ", "01", " ", "Jan", " ", "1970", " ", "00:00:00", " ", "GMT">>,
   <<"Thu", ",", " ", "05", " ", "Nov", " ", "2026", " ", "01:02:03", " ", "GMT">>}

address == <<"http://", "ouman">>

Params == {<<"S_227_85">>, <<"S_92_85", "=", "5", "0">>, <<"S_135_85", "=", "1">>}

EncodeCalls ==
  {[name |-> "_construct_request_url", path |-> path, params |-> params, now |-> now] :
     path \in {<<"request">>, <<"update">>},
     params \in UNION {[1..n -> Params] : n \in 0..MaxParams},
     now \in Timestamps}

ReturnStr(text) ==
  [kind |-> "return", err |-> NoErr, response |-> NoResponse, returns |-> "str",
   text |-> text]

\* An encoder that leaves the timestamp out when there are other params.
_construct_request_url_bare(path, params, now) ==
  address \o <<"/">> \o path \o <<"?">>
    \o Join(IF params = <<>> THEN <<now \o <<"=">>>> ELSE params, ";")

_construct_request_url(path, params, now) ==
  LET request_url == address \o <<"/">> \o path
      gmt_string_param == now \o <<"=">>
  IN request_url \o <<"?">> \o Join(Append(params, gmt_string_param), ";")

InitCodec ==
  /\ pc = "idle"
  /\ session = "untracked"
  /\ caches = NoCaches
  /\ computed = <<>>
  /\ op \in DecodeCalls \cup EncodeCalls
  /\ sent = <<>>
  /\ replies = <<>>
  /\ result = NoResult

Decode ==
  /\ pc = "idle" /\ op.name = "_parse_api_response"
  /\ result' = IF ~CanParse(ResponseText(op))
                THEN Raise(Err("ValueError", "not enough values to unpack", "none", 0))
                ELSE Return(_parse_api_response(ResponseText(op)))
  /\ pc' = "done"
  /\ UNCHANGED <<op, sent, replies>>
  /\ UNCHANGED env

Encode ==
  /\ pc = "idle" /\ op.name = "_construct_request_url"
  /\ result' = ReturnStr(_construct_request_url(op.path, op.params, op.now))
  /\ pc' = "done"
  /\ UNCHANGED <<op, sent, replies>>
  /\ UNCHANGED env

NextCodec ==
  \/ Decode
  \/ Encode

SpecCodec == InitCodec /\ [][NextCodec]_vars

\* =============================================================== registries
\* A registry class: its name, its base class (<<>> for OumanRegistry) and
\* its own __dict__ in declaration order, one entry per endpoint attribute.
SystemEndpoints ==
  [name |-> "SystemEndpoints", bases |-> <<>>,
   dict |-> <<
     [key |-> "TREND_SAMPLE_INTERVAL", kind |-> "IntControlOumanEndpoint",
      name |-> "trend_sampling_interval", sensor_endpoint_id |-> "S_26_85"],
     [key |-> "HOME_AWAY_MODE", kind |-> "EnumControlOumanEndpoint",
      name |-> "home_away_mode", sensor_endpoint_id |-> "S_135_85"],
     [key |-> "OUTSIDE_TEMPERATURE", kind |-> "NumberOumanEndpoint",
      name |-> "outside_temperature", sensor_endpoint_id |-> "S_227_85"],
     [key |-> "RELAY_CONFIGURATION_TYPE", kind |-> "OumanEndpoint",
      name |-> "relay_configuration_type", sensor_endpoint_id |-> "S_1002_85"],
     [key |-> "RELAY_STATUS_TEXT", kind |-> "OumanEndpoint",
      name |-> "relay_status_text", sensor_endpoint_id |-> "S_1004_85"],
     [key |-> "L2_INSTALLED_STATUS", kind |-> "OumanEndpoint",
      name |-> "l2_installed_status", sensor_endpoint_id |-> "S_140_85"]>>]

L1Endpoints ==
  [name |-> "L1Endpoints", bases |-> <<>>,
   dict |-> <<
     [key |-> "OPERATION_MODE", kind |-> "EnumControlOumanEndpoint",
      name |-> "l1_operation_mode", sensor_endpoint_id |-> "S_59_85"],
     [key |-> "VALVE_POSITION_SETPOINT", kind |-> "IntControlOumanEndpoint",
      name |-> "l1_valve_position_setpoint", sensor_endpoint_id |-> "S_92_85"],
     [key |-> "CURVE_MINUS_20_TEMP", kind |-> "IntControlOumanEndpoint",
      name |-> "l1_curve_minus_20_temperature", sensor_endpoint_id |-> "S_61_85"],
     [key |-> "CURVE_0_TEMP", kind |-> "IntControlOumanEndpoint",
      name |-> "l1_curve_0_temperature", sensor_endpoint_id |-> "S_63_85"],
     [key |-> "CURVE_20_TEMP", kind |-> "IntControlOumanEndpoint",
      name |-> "l1_curve_20_temperature", sensor_endpoint_id |-> "S_65_85"],
     [key |-> "TEMPERATURE_DROP", kind |-> "IntControlOumanEndpoint",
      name |-> "l1_temperature_drop", sensor_endpoint_id |-> "S_89_85"],
     [key |-> "BIG_TEMPERATURE_DROP", kind |-> "IntControlOumanEndpoint",
      name |-> "l1_big_temperature_drop", sensor_endpoint_id |-> "S_90_85"],
     [key |-> "WATER_OUT_MIN_TEMP", kind |-> "IntControlOumanEndpoint",
      name |-> "l1_water_out_minimum_temperature", sensor_endpoint_id |-> "S_54_85"],
     [key |-> "WATER_OUT_MAX_TEMP", kind |-> "IntControlOumanEndpoint",
      name |-> "l1_water_out_maximum_temperature", sensor_endpoint_id |-> "S_55_85"],
     [key |-> "ROOM_TEMPERATURE_FINE_TUNING", kind |-> "FloatControlOumanEndpoint",
      name |-> "l1_room_temperature_fine_tuning", sensor_endpoint_id |-> "S_134_85"],
     [key |-> "HEATING_SHUTDOWN_STATUS", kind |-> "OumanEndpoint",
      name |-> "l1_heating_shutdown_status", sensor_endpoint_id |-> "S_0_0"],
     [key |-> "TEMPERATURE_LEVEL_STATUS_TEXT", kind |-> "OumanEndpoint",
      name |-> "l1_temperature_level_status_text", sensor_endpoint_id |-> "S_1000_0"],
     [key |-> "CIRCUIT_NAME", kind |-> "OumanEndpoint",
      name |-> "l1_circuit_name", sensor_endpoint_id |-> "S_131_85"],
     [key |-> "SUPPLY_WATER_TEMPERATURE", kind |-> "NumberOumanEndpoint",
      name |-> "l1_supply_water_temperature", sensor_endpoint_id |-> "S_259_85"],
     [key |-> "VALVE_POSITION", kind |-> "NumberOumanEndpoint",
      name |-> "l1_valve_position", sensor_endpoint_id |-> "S_272_85"],
     [key |-> "SUPPLY_WATER_TEMPERATURE_SETPOINT", kind |-> "NumberOumanEndpoint",
      name |-> "l1_supply_water_temperature_setpoint", sensor_endpoint_id |-> "S_275_85"],
     [key |-> "ROOM_SENSOR_INSTALLED", kind |-> "OumanEndpoint",
      name |-> "l1_room_sensor_installed", sensor_endpoint_id |-> "S_261_111"]>>]

L1EndpointsWithRoomSensor ==
  [name |-> "L1EndpointsWithRoomSensor", bases |-> <<"L1Endpoints">>,
   dict |-> <<
     [key |-> "ROOM_SENSOR_POTENTIOMETER", kind |-> "NumberOumanEndpoint",
      name |-> "l1_room_sensor_potentiometer", sensor_endpoint_id |-> "S_274_85"],
     [key |-> "ROOM_TEMPERATURE", kind |-> "NumberOumanEndpoint",
      name |-> "l1_room_temperature", sensor_endpoint_id |-> "S_261_85"],
     [key |-> "ROOM_TEMPERATURE_SETPOINT", kind |-> "NumberOumanEndpoint",
      name |-> "l1_room_temperature_setpoint", sensor_endpoint_id |-> "S_278_85"],
     [key |-> "ROOM_TEMPERATURE_FINE_TUNING", kind |-> "FloatControlOumanEndpoint",
      name |-> "l1_room_temperature_fine_tuning", sensor_endpoint_id |-> "S_102_85"]>>]

L2Endpoints ==
  [name |-> "L2Endpoints", bases |-> <<>>,
   dict |-> <<
     [key |-> "OPERATION_MODE", kind |-> "EnumControlOumanEndpoint",
      name |-> "l2_operation_mode", sensor_endpoint_id |-> "S_146_85"],
     [key |-> "VALVE_POSITION_SETPOINT", kind |-> "IntControlOumanEndpoint",
      name |-> "l2_valve_position_setpoint", sensor_endpoint_id |-> "S_179_85"],
     [key |-> "CURVE_MINUS_20_TEMP", kind |-> "IntControlOumanEndpoint",
      name |-> "l2_curve_minus_20_temperature", sensor_endpoint_id |-> "S_148_85"],
     [key |-> "CURVE_0_TEMP", kind |-> "IntControlOumanEndpoint",
      name |-> "l2_curve_0_temperature", sensor_endpoint_id |-> "S_150_85"],
     [key |-> "CURVE_20_TEMP", kind |-> "IntControlOumanEndpoint",
      name |-> "l2_curve_20_temperature", sensor_endpoint_id |-> "S_152_85"],
     [key |-> "TEMPERATURE_DROP", kind |-> "IntControlOumanEndpoint",
      name |-> "l2_temperature_drop", sensor_endpoint_id |-> "S_176_85"],
     [key |-> "BIG_TEMPERATURE_DROP", kind |-> "IntControlOumanEndpoint",
      name |-> "l2_big_temperature_drop", sensor_endpoint_id |-> "S_177_85"],
     [key |-> "WATER_OUT_MIN_TEMP", kind |-> "IntControlOumanEndpoint",
      name |-> "l2_water_out_minimum_temperature", sensor_endpoint_id |-> "S_141_85"],
     [key |-> "WATER_OUT_MAX_TEMP", kind |-> "IntControlOumanEndpoint",
      name |-> "l2_water_out_maximum_temperature", sensor_endpoint_id |-> "S_142_85"],
     [key |-> "ROOM_TEMPERATURE_FINE_TUNING", kind |-> "FloatControlOumanEndpoint",
      name |-> "l2_room_temperature_fine_tuning", sensor_endpoint_id |-> "S_221_85"],
     [key |-> "TEMPERATURE_LEVEL_STATUS_TEXT", kind |-> "OumanEndpoint",
      name |-> "l2_temperature_level_status_text", sensor_endpoint_id |-> "S_1001_0"],
     [key |-> "CIRCUIT_NAME", kind |-> "OumanEndpoint",
      name |-> "l2_circuit_name", sensor_endpoint_id |-> "S_218_85"],
     [key |-> "SUPPLY_WATER_TEMPERATURE", kind |-> "NumberOumanEndpoint",
      name |-> "l2_supply_water_temperature", sensor_endpoint_id |-> "S_293_85"],
     [key |-> "SUPPLY_WATER_TEMPERATURE_SETPOINT", kind |-> "NumberOumanEndpoint",
      name |-> "l2_supply_water_temperature_setpoint", sensor_endpoint_id |-> "S_310_85"],
     [key |-> "ROOM_SENSOR_INSTALLED", kind |-> "OumanEndpoint",
      name |-> "l2_room_sensor_installed", sensor_endpoint_id |-> "S_295_111"]>>]

L2EndpointsWithRoomSensor ==
  [name |-> "L2EndpointsWithRoomSensor", bases |-> <<"L2Endpoints">>,
   dict |-> <<
     [key |-> "ROOM_SENSOR_POTENTIOMETER", kind |-> "NumberOumanEndpoint",
      name |-> "l2_room_sensor_potentiometer", sensor_endpoint_id |-> "S_307_85"],
     [key |-> "ROOM_TEMPERATURE", kind |-> "NumberOumanEndpoint",
      name |-> "l2_room_temperature", sensor_endpoint_id |-> "S_295_85"],
     [key |-> "ROOM_TEMPERATURE_SETPOINT", kind |-> "NumberOumanEndpoint",
      name |-> "l2_room_temperature_setpoint", sensor_endpoint_id |-> "S_313_85"],
     [key |-> "ROOM_TEMPERATURE_FINE_TUNING", kind |-> "FloatControlOumanEndpoint",
      name |-> "l2_room_temperature_fine_tuning", sensor_endpoint_id |-> "S_189_85"]>>]

TestRegistryA ==
  [name |-> "TestRegistryA", bases |-> <<>>,
   dict |-> <<
     [key |-> "ENDPOINT_1", kind |-> "NumberOumanEndpoint",
      name |-> "test_endpoint_1", sensor_endpoint_id |-> "S_TEST_1"],
     [key |-> "ENDPOINT_2", kind |-> "NumberOumanEndpoint",
      name |-> "test_endpoint_2", sensor_endpoint_id |-> "S_TEST_2"]>>]

TestRegistryB ==
  [name |-> "TestRegistryB", bases |-> <<>>,
   dict |-> <<
     [key |-> "ENDPOINT_3", kind |-> "NumberOumanEndpoint",
      name |-> "test_endpoint_3", sensor_endpoint_id |-> "S_TEST_3"]>>]

TestRegistryConflicting ==
  [name |-> "TestRegistryConflicting", bases |-> <<>>,
   dict |-> <<
     [key |-> "ENDPOINT_CONFLICT", kind |-> "NumberOumanEndpoint",
      name |-> "test_endpoint_conflict", sensor_endpoint_id |-> "S_TEST_1"]>>]

TestRegistryChild ==
  [name |-> "TestRegistryChild", bases |-> <<"TestRegistryA">>,
   dict |-> <<
     [key |-> "ENDPOINT_1", kind |-> "NumberOumanEndpoint",
      name |-> "test_endpoint_1_override", sensor_endpoint_id |-> "S_TEST_1_OVERRIDE"],
     [key |-> "ENDPOINT_4", kind |-> "NumberOumanEndpoint",
      name |-> "test_endpoint_4", sensor_endpoint_id |-> "S_TEST_4"]>>]

Classes ==
  {SystemEndpoints, L1Endpoints, L1EndpointsWithRoomSensor,
   L2Endpoints, L2EndpointsWithRoomSensor, TestRegistryA,
   TestRegistryB, TestRegistryConflicting, TestRegistryChild}

Class(name) == CHOOSE c \in Classes : c.name = name

\* cls.mro(), without OumanRegistry and object, which hold no endpoint
RECURSIVE mro(_)
mro(cls) == <<cls>> \o (IF cls.bases = <<>> THEN <<>> ELSE mro(Class(cls.bases[1])))

RECURSIVE Items(_)
Items(classes) == IF classes = <<>> THEN <<>> ELSE Head(classes).dict \o Items(Tail(classes))

\* The loop body of iterate_endpoints: a key seen before yields nothing.
RECURSIVE YieldUnseen(_, _)
YieldUnseen(items, seen_keys) ==
  IF items = <<>> THEN <<>>
  ELSE IF Head(items).key \in seen_keys THEN YieldUnseen(Tail(items), seen_keys)
  ELSE <<Head(items)>> \o YieldUnseen(Tail(items), seen_keys \cup {Head(items).key})

\* An iteration that yields an overridden parent attribute as well.
iterate_endpoints_all(cls) == Items(mro(cls))

iterate_endpoints(cls) == YieldUnseen(Items(mro(cls)), {})

get_sensor_endpoint_ids(cls) ==
  [i \in 1..Len(iterate_endpoints(cls)) |-> iterate_endpoints(cls)[i].sensor_endpoint_id]

\* ---- OumanRegistrySet
MaxRegistries == 3

RegistryLists == UNION {[1..n -> {c.name : c \in Classes}] : n \in 0..MaxRegistries}

RECURSIVE AllEndpoints(_)
AllEndpoints(registries) ==
  IF registries = <<>> THEN <<>>
  ELSE iterate_endpoints(Class(Head(registries))) \o AllEndpoints(Tail(registries))

HasDuplicatesNever(registries) == FALSE

HasDuplicates(registries) ==
  \E i, j \in 1..Len(registries) : i # j /\ registries[i] = registries[j]

ConflictingIdsNone(endpoints) == {}

\* The sensor IDs more than one of the endpoints carries.
ConflictingIds(endpoints) ==
  LET ids == [i \in 1..Len(endpoints) |-> endpoints[i].sensor_endpoint_id]
  IN {ids[i] : i \in {i \in 1..Len(ids) : \E j \in 1..Len(ids) : j # i /\ ids[j] = ids[i]}}

RegistrySetOf(registries, endpoints) ==
  [kind |-> "return", err |-> NoErr, response |-> NoResponse,
   returns |-> "OumanRegistrySet", registries |-> registries, endpoints |-> endpoints,
   ids |-> {}]

RaiseIds(err, ids) ==
  [kind |-> "raise", err |-> err, response |-> NoResponse, returns |-> "none",
   registries |-> <<>>, endpoints |-> <<>>, ids |-> ids]

OumanRegistrySet(registries) ==
  IF HasDuplicates(registries)
  THEN RaiseIds(Err("ValueError", "Multiple of the same registry", "none", 0), {})
  ELSE LET endpoints == AllEndpoints(registries)
           conflicting == ConflictingIds(endpoints)
       IN IF conflicting # {}
          THEN RaiseIds(Err("ValueError", "Conflicting endpoint IDs", "none", 0), conflicting)
          ELSE RegistrySetOf(registries, endpoints)

\* ---- get_active_registries
\* What the three probes read: the loop-2 installed flag and the two
\* room-sensor-installed flags.
Probes ==
  [l2_installed : {"0", "1"}, l1_room_sensor : {"off", "on"}, l2_room_sensor : {"off", "on"}]

get_is_l2_installed(value) == value # "0"

_get_is_room_sensor_installed(value) == value # "off"

\* A detection that adds the room-sensor variant next to the plain loop.
get_active_registries_both(probes) ==
  <<"SystemEndpoints", "L1Endpoints">>
    \o (IF _get_is_room_sensor_installed(probes.l1_room_sensor)
        THEN <<"L1EndpointsWithRoomSensor">> ELSE <<>>)
    \o (IF get_is_l2_installed(probes.l2_installed) THEN <<"L2Endpoints">> ELSE <<>>)

get_active_registries(probes) ==
  <<"SystemEndpoints">>
    \o (IF _get_is_room_sensor_installed(probes.l1_room_sensor)
        THEN <<"L1EndpointsWithRoomSensor">> ELSE <<"L1Endpoints">>)
    \o (IF ~get_is_l2_installed(probes.l2_installed) THEN <<>>
        ELSE IF _get_is_room_sensor_installed(probes.l2_room_sensor)
        THEN <<"L2EndpointsWithRoomSensor">> ELSE <<"L2Endpoints">>)

ReturnEndpoints(endpoints) ==
  [kind |-> "return", err |-> NoErr, response |-> NoResponse,
   returns |-> "list", registries |-> <<>>, endpoints |-> endpoints, ids |-> {}]

InitRegistry ==
  /\ pc = "idle"
  /\ session = "untracked"
  /\ caches = NoCaches
  /\ computed = <<>>
  /\ op \in {[name |-> "OumanRegistrySet", registries |-> r] : r \in RegistryLists}
           \cup {[name |-> "iterate_endpoints", registries |-> <<c.name>>] : c \in Classes}
           \cup {[name |-> "get_active_registries", registries |-> <<>>, probes |-> v] :
                   v \in Probes}
  /\ sent = <<>>
  /\ replies = <<>>
  /\ result = NoResult

Construct ==
  /\ pc = "idle" /\ op.name = "OumanRegistrySet"
  /\ result' = OumanRegistrySet(op.registries)
  /\ pc' = "done"
  /\ UNCHANGED <<op, sent, replies>>
  /\ UNCHANGED env

Iterate ==
  /\ pc = "idle" /\ op.name = "iterate_endpoints"
  /\ result' = ReturnEndpoints(iterate_endpoints(Class(op.registries[1])))
  /\ pc' = "done"
  /\ UNCHANGED <<op, sent, replies>>
  /\ UNCHANGED env

GetActiveRegistries ==
  /\ pc = "idle" /\ op.name = "get_active_registries"
  /\ result' = OumanRegistrySet(get_active_registries(op.probes))
  /\ pc' = "done"
  /\ UNCHANGED <<op, sent, replies>>
  /\ UNCHANGED env

NextRegistry ==
  \/ Construct
  \/ Iterate
  \/ GetActiveRegistries

SpecRegistry == InitRegistry /\ [][NextRegistry]_vars

\* ------------------------------------------------ the cached classmethods
\* get_sensor_endpoint_ids and _sensor_id_endpoint_map are each wrapped once,
\* in OumanRegistry, by lru_cache(maxsize=1): every registry calls the same
\* wrapper, whose key is the class.
maxsize == 1

MaxCalls == 3

CacheClasses == {"SystemEndpoints", "L1Endpoints", "L1EndpointsWithRoomSensor"}

LookupIds == {"S_134_85", "S_102_85", "S_227_85", "S_9_9"}

\* A cache that answers with whatever it holds, whichever class asks.
CacheGetAny(cache, cls) == [i \in 1..Len(cache) |-> cache[i].value]

\* The values cached under the key: none on a miss.
CacheGet(cache, cls) ==
  LET hits == SelectSeq(cache, LAMBDA entry : entry.cls = cls)
  IN [i \in 1..Len(hits) |-> hits[i].value]

\* The entry becomes the most recent one; the oldest goes when the cache is
\* over maxsize.
CachePut(cache, cls, value) ==
  LET others == SelectSeq(cache, LAMBDA entry : entry.cls # cls)
      all == Append(others, [cls |-> cls, value |-> value])
  IN IF Len(all) > maxsize THEN SubSeq(all, Len(all) - maxsize + 1, Len(all)) ELSE all

\* {endpoint.sensor_endpoint_id: endpoint for endpoint in cls.iterate_endpoints()}
RECURSIVE DictOf(_, _)
DictOf(endpoints, acc) ==
  IF endpoints = <<>> THEN acc
  ELSE DictOf(Tail(endpoints), DictSet(acc, Head(endpoints).sensor_endpoint_id, Head(endpoints)))

_sensor_id_endpoint_map(cls) == DictOf(iterate_endpoints(cls), <<>>)

ReturnIds(ids) ==
  [kind |-> "return", err |-> NoErr, response |-> NoResponse, returns |-> "list", ids |-> ids]

ReturnEndpoint(endpoint) ==
  [kind |-> "return", err |-> NoErr, response |-> NoResponse, returns |-> "OumanEndpoint",
   endpoint |-> endpoint]

CacheCall(name, cls, id, n) == [name |-> name, cls |-> cls, id |-> id, n |-> n]

InitCache ==
  /\ pc = "idle"
  /\ session = "untracked"
  /\ caches = NoCaches
  /\ computed = <<>>
  /\ op = CacheCall("none", "none", "none", 0)
  /\ sent = <<>>
  /\ replies = <<>>
  /\ result = NoResult

CallGetSensorEndpointIds ==
  /\ pc = "idle" /\ op.n < MaxCalls
  /\ \E cls \in CacheClasses :
       LET cached == CacheGet(caches.get_sensor_endpoint_ids, cls)
           value == IF cached # <<>> THEN cached[1] ELSE get_sensor_endpoint_ids(Class(cls))
       IN /\ caches' = [caches EXCEPT !.get_sensor_endpoint_ids = CachePut(@, cls, value)]
          /\ computed' = IF cached # <<>> THEN computed
                         ELSE Append(computed, [fn |-> "get_sensor_endpoint_ids", cls |-> cls])
          /\ op' = CacheCall("get_sensor_endpoint_ids", cls, "none", op.n + 1)
          /\ result' = ReturnIds(value)
  /\ UNCHANGED <<pc, sent, replies, session>>

CallGetEndpointBySensorId ==
  /\ pc = "idle" /\ op.n < MaxCalls
  /\ \E cls \in CacheClasses : \E id \in LookupIds :
       LET cached == CacheGet(caches._sensor_id_endpoint_map, cls)
           value == IF cached # <<>> THEN cached[1] ELSE _sensor_id_endpoint_map(Class(cls))
       IN /\ caches' = [caches EXCEPT !._sensor_id_endpoint_map = CachePut(@, cls, value)]
          /\ computed' = IF cached # <<>> THEN computed
                         ELSE Append(computed, [fn |-> "_sensor_id_endpoint_map", cls |-> cls])
          /\ op' = CacheCall("get_endpoint_by_sensor_id", cls, id, op.n + 1)
          /\ result' = IF DictHas(value, id) THEN ReturnEndpoint(DictGet(value, id))
                       ELSE ReturnNone
  /\ UNCHANGED <<pc, sent, replies, session>>

NextCache ==
  \/ CallGetSensorEndpointIds
  \/ CallGetEndpointBySensorId

SpecCache == InitCache /\ [][NextCache]_vars

\* ================================================================== claims
SingleRequestOps == {"login", "logout", "get_values", "get_alarms"}

SetOps == {"_set_int_endpoint", "_set_float_endpoint", "_set_enum_endpoint"}

Done == pc = "idle" /\ op.name # "none"

Is404(o) == o.t = "http" /\ o.status = 404

Raised(cls) == result.kind = "raise" /\ result.err.cls = cls

\* The answer carried a body the decoder accepts.
Decoded(o) == o.t = "http" /\ o.status < 400 /\ Contains(o.body, "?")

Count(requests, path) == Cardinality({i \in 1..Len(requests) : requests[i].path = path})

LoginOk == Http(200, Body("login", <<<<"result", "=", "ok">>>>))

\* C1: when the update of a write is answered 404, exactly one login follows
\* and, the login accepted, exactly one retried update with the same
\* parameters; a 404 on the retry fails the write with a CommunicationError
\* and nothing more is sent.
C1_RetryOnce ==
  (op.name \in SetOps /\ Len(replies) >= 1 /\ Is404(replies[1])) =>
    /\ Len(sent) >= 2 /\ sent[2] = LoginRequest
    /\ Count(sent, "login") = 1
    /\ Count(sent, "update") <= 2
    /\ (Len(replies) >= 2 /\ Decoded(replies[2])
          /\ ResultIs(_parse_api_response(replies[2].body), "ok")) =>
         /\ Len(sent) = 3
         /\ sent[3].path = "update"
         /\ sent[3] = sent[1]
    /\ (Len(replies) = 3 /\ Is404(replies[3])) =>
         /\ pc = "idle"
         /\ Raised(CommunicationError)
         /\ result.err.status = 404
         /\ Len(sent) = 3

C1_Witness ==
  /\ Done /\ op.name \in SetOps
  /\ Len(replies) = 3 /\ Is404(replies[1]) /\ replies[2] = LoginOk /\ Is404(replies[3])
  /\ Raised(CommunicationError)
  /\ Len(sent) = 3 /\ sent[3] = sent[1]

\* C2: an update that fails with another HTTP error status, a timeout or a
\* network failure reaches the caller as a CommunicationError, with no login
\* and no second update sent.
C2_OtherFailurePropagates ==
  (Done /\ op.name \in SetOps /\ Len(replies) = 1
     /\ \/ replies[1].t \in {"timeout", "neterr"}
        \/ replies[1].t = "http" /\ replies[1].status >= 400 /\ replies[1].status # 404) =>
    /\ Raised(CommunicationError)
    /\ Len(sent) = 1

\* C3: login, logout, get_values and get_alarms send one request per call and
\* a failed request propagates without login or retry; a login the caller did
\* not ask for is sent only right after an update answered 404.
C3_NoOtherRetry ==
  /\ op.name \in SingleRequestOps =>
       /\ Len(sent) = 1
       /\ (Done /\ ~Decoded(replies[1])) => result.kind = "raise"
       /\ (Done /\ replies[1].t = "http" /\ replies[1].status >= 400) =>
            Raised(CommunicationError) /\ result.err.status = replies[1].status
  /\ \A i \in 1..Len(sent) :
       (sent[i].path = "login" /\ ~(i = 1 /\ op.name = "login")) =>
         /\ i > 1
         /\ sent[i - 1].path = "update"
         /\ Is404(replies[i - 1])

C3_Witness ==
  /\ Done /\ op.name = "get_values"
  /\ Is404(replies[1])
  /\ Raised(CommunicationError)
  /\ Len(sent) = 1

\* C4: every failure of a client operation reaches the caller as one of the
\* typed errors (authentication, communication, protocol, validation), for
\* every transport outcome and every body.
IsTypedError(err) ==
  \/ err.cls \in {AuthenticationError, CommunicationError, ClientError}
  \/ err.cls = "ValueError" /\ err.msg = "out of bounds"
  \/ err.cls = "TypeError" /\ err.msg = "Unexpected type"

C4_OnlyTypedErrors == (Done /\ result.kind = "raise") => IsTypedError(result.err)

\* C5: login succeeds exactly when the decoded response has result=ok;
\* result=error raises an AuthenticationError; any other decoded response
\* raises the generic client (protocol) error.
C5_LoginResult ==
  (Done /\ op.name = "login" /\ Decoded(replies[1])) =>
    LET decoded == _parse_api_response(replies[1].body)
        ok == ResultIs(decoded, "ok")
        error == ResultIs(decoded, "error")
    IN /\ result.kind = "return" <=> ok
       /\ ok => result.response = decoded
       /\ error => Raised(AuthenticationError)
       /\ (~ok /\ ~error) => Raised(ClientError)
       /\ replies[1].body = Body("login", <<<<"result", "=", "busy">>>>) => Raised(ClientError)
       /\ replies[1].body = Body("login", <<<<"S_0_0", "=", "ok">>>>) => Raised(ClientError)

C5_Witness ==
  /\ Done /\ op.name = "login"
  /\ replies[1] = Http(200, Body("login", <<<<"result", "=", "busy">>>>))
  /\ Raised(ClientError)

\* C6: logout succeeds exactly when the decoded response has result=ok; any
\* other decoded response, result=error included, raises the client
\* (protocol) error and never an AuthenticationError.
C6_LogoutResult ==
  (Done /\ op.name = "logout" /\ Decoded(replies[1])) =>
    LET decoded == _parse_api_response(replies[1].body)
        ok == ResultIs(decoded, "ok")
    IN /\ result.kind = "return" <=> ok
       /\ ~ok => Raised(ClientError)
       /\ ~Raised(AuthenticationError)

C6_Witness ==
  /\ Done /\ op.name = "logout"
  /\ replies[1] = Http(200, Body("logout", <<<<"result", "=", "error">>>>))
  /\ Raised(ClientError)

\* What reaches the caller of _request for the i-th request of the operation:
\* the operation's result when that request ended it with the request's own
\* outcome (the operations of one request, the login after a 404, the retry).
Ended(i) ==
  /\ Done /\ Len(replies) = i /\ i >= 1
  /\ op.name \in SingleRequestOps \/ i >= 2

\* C7 as claimed: a timeout, a non-2xx status and a network failure each
\* surface as a CommunicationError, and a 2xx response never does.
C7_Non2xxIsCommunicationError ==
  \A i \in 1..Len(replies) : Ended(i) =>
    LET o == replies[i]
    IN /\ o.t = "timeout" => Raised(CommunicationError)
       /\ o.t = "neterr" => Raised(CommunicationError)
       /\ (o.t = "http" /\ o.status \notin 200..299) =>
            Raised(CommunicationError) /\ result.err.status = o.status
       /\ (o.t = "http" /\ o.status \in 200..299) => ~Raised(CommunicationError)

\* C7 amended: a timeout, an HTTP status of 400 or above (reported with the
\* status) and a network failure (reported with its cause) each surface as a
\* CommunicationError; a response with a status below 400 never does.
C7_ErrorStatusIsCommunicationError ==
  \A i \in 1..Len(replies) : Ended(i) =>
    LET o == replies[i]
    IN /\ o.t = "timeout" =>
            Raised(CommunicationError) /\ result.err.cause = "TimeoutError"
       /\ o.t = "neterr" =>
            /\ Raised(CommunicationError)
            /\ result.err.msg = "Network error" /\ result.err.cause = "ClientError"
       /\ (o.t = "http" /\ o.status >= 400) =>
            /\ Raised(CommunicationError)
            /\ result.err.msg = "HTTP Error" /\ result.err.status = o.status
       /\ (o.t = "http" /\ o.status < 400) => ~Raised(CommunicationError)

C7_Witness ==
  /\ Done /\ op.name = "get_alarms"
  /\ replies[1].t = "http" /\ replies[1].status = 500
  /\ Raised(CommunicationError) /\ result.err.status = 500

\* C8: a set operation whose value fails validation raises a validation error
\* and sends nothing: an int or float value is rejected exactly when it is
\* below min_val or above max_val, an enum value when it is not of the
\* endpoint's own enumeration type.
C8_ValidationSendsNothing ==
  /\ op.name \in {"_set_int_endpoint", "_set_float_endpoint"} =>
       LET outside == op.value < op.endpoint.min_val \/ op.value > op.endpoint.max_val
       IN /\ outside => (pc = "idle" /\ sent = <<>> /\ Raised("ValueError")
                           /\ result.err.msg = "out of bounds")
          /\ ~outside => (Len(sent) >= 1 /\ sent[1].path = "update")
          /\ op.value \in {op.endpoint.min_val, op.endpoint.max_val} => Len(sent) >= 1
  /\ op.name = "_set_enum_endpoint" =>
       /\ op.enum.type # op.endpoint.enum_type =>
            (pc = "idle" /\ sent = <<>> /\ Raised("TypeError"))
       /\ op.enum.type = op.endpoint.enum_type => Len(sent) >= 1

C8_Witness ==
  /\ Done /\ op.name = "_set_int_endpoint"
  /\ op.value = op.endpoint.max_val + 1
  /\ sent = <<>> /\ Raised("ValueError")

\* The value text of the only parameter of an update request
ParamValue(request) == SubSeq(request.params[1], 3, Len(request.params[1]))

\* The value the answer holds under an ID, read as a number
Returned(o, id) == ParseFloat(DictGet(_parse_api_response(o.body).values, <<id>>))

HasValue(o, id) ==
  /\ DictHas(_parse_api_response(o.body).values, <<id>>)
  /\ DictGet(_parse_api_response(o.body).values, <<id>>) # <<>>

\* C9: an integer write sends one parameter, control ID = value, and succeeds
\* only if the response holds the endpoint's ID with a value numerically
\* equal to the written integer; an absent ID, a value that is no number and
\* a different value each fail with the client (protocol) error.
C9_IntWriteConfirmed ==
  (op.name = "_set_int_endpoint" /\ sent # <<>>) =>
    LET id == op.endpoint.sensor_endpoint_id
        written == [mant |-> op.value, places |-> 0]
        last == replies[Len(replies)]
    IN /\ \A i \in 1..Len(sent) : sent[i].path = "update" =>
            /\ Len(sent[i].params) = 1
            /\ sent[i].params[1][1] = op.endpoint.control_endpoint_ids[1]
            /\ sent[i].params[1][2] = "="
            /\ ParseFloat(ParamValue(sent[i])).ok
            /\ NumEq(ParseFloat(ParamValue(sent[i])), written)
       /\ (Done /\ result.kind = "return") =>
            /\ Decoded(last)
            /\ HasValue(last, id)
            /\ Returned(last, id).ok
            /\ NumEq(Returned(last, id), written)
       /\ (Done /\ Decoded(last) /\ sent[Len(replies)].path = "update") =>
            /\ ~HasValue(last, id) => Raised(ClientError)
            /\ (HasValue(last, id) /\ ~Returned(last, id).ok) => Raised(ClientError)
            /\ (HasValue(last, id) /\ Returned(last, id).ok
                  /\ ~NumEq(Returned(last, id), written)) =>
                 Raised(ClientError) /\ result.err.msg = "Returned float does not match set int value"

C9_Witness ==
  /\ Done /\ op.name = "_set_int_endpoint" /\ op.value = 50
  /\ result.kind = "return"
  /\ DictGet(result.response.values, <<"S_92_85">>) = <<"5", "0", ".", "0">>

\* The tenth t is the one round(value, 1) gives: the nearest to the double's
\* exact value, an exact tie going to the even tenth.
NearestTenth(value, t) ==
  LET d == value - 10 * t
      a == Abs(value)
  IN \/ Abs(d) < 5
     \/ /\ Abs(d) = 5
        /\ IF IsExactHalf(a) THEN t % 2 = 0
           ELSE IF a \in DoubleAbove THEN Abs(10 * t) > a
           ELSE Abs(10 * t) < a

\* C10 as claimed: the value sent is the input rounded to one decimal with
\* halves away from zero.
C10_HalvesAwayFromZero ==
  (op.name = "_set_float_endpoint" /\ sent # <<>>) =>
    \A i \in 1..Len(sent) : sent[i].path = "update" =>
      /\ ParseFloat(ParamValue(sent[i])).ok
      /\ NumEq(ParseFloat(ParamValue(sent[i])),
               [mant |-> (IF op.value < 0 THEN -1 ELSE 1)
                           * ((Abs(op.value) + 5) \div 10), places |-> 1])

\* C10 amended: the value sent is the input rounded to one decimal as round()
\* does it (nearest tenth of the double, exact ties to the even tenth: 1.55
\* goes out as 1.6, 0.25 as 0.2), and the confirmation compares the returned
\* value with that rounded value, not with the raw input.
C10_RoundedSentAndConfirmed ==
  (op.name = "_set_float_endpoint" /\ sent # <<>>) =>
    LET id == op.endpoint.sensor_endpoint_id
        last == replies[Len(replies)]
        raw == [mant |-> op.value, places |-> 2]
    IN /\ \A i \in 1..Len(sent) : sent[i].path = "update" =>
            LET p == ParseFloat(ParamValue(sent[i]))
            IN /\ Len(sent[i].params) = 1
               /\ p.ok /\ p.places = 1
               /\ NearestTenth(op.value, p.mant)
       /\ op.value = 155 => ParamValue(sent[1]) = <<"1", ".", "6">>
       /\ op.value = 25 => ParamValue(sent[1]) = <<"0", ".", "2">>
       /\ (Done /\ result.kind = "return") =>
            /\ Returned(last, id).ok
            /\ NumEq(Returned(last, id), ParseFloat(ParamValue(sent[1])))
       /\ (Done /\ Decoded(last) /\ sent[Len(replies)].path = "update" /\ HasValue(last, id)
             /\ Returned(last, id).ok /\ NumEq(Returned(last, id), raw)
             /\ ~NumEq(raw, ParseFloat(ParamValue(sent[1])))) =>
            Raised(ClientError)

C10_Witness ==
  /\ Done /\ op.name = "_set_float_endpoint" /\ op.value = 155
  /\ ParamValue(sent[1]) = <<"1", ".", "6">>
  /\ result.kind = "return"
  /\ DictGet(result.response.values, <<op.endpoint.sensor_endpoint_id>>) = <<"1", ".", "6">>

\* The last answer of a finished set operation, when it was the answer to an
\* update and carried a body the decoder accepts.
UpdateAnswered ==
  /\ Done /\ sent # <<>> /\ Len(replies) >= 1
  /\ sent[Len(replies)].path = "update"
  /\ Decoded(replies[Len(replies)])

LastValues == _parse_api_response(replies[Len(replies)].body).values

\* C11 as claimed: an enum write succeeds only if every declared response ID
\* is present with the written value; a response lacking one fails reporting
\* it missing, a response with all of them present but an unequal value fails
\* reporting that it does not match.
C11_MissingOrMismatch ==
  (op.name = "_set_enum_endpoint" /\ UpdateAnswered) =>
    LET ids == op.endpoint.response_endpoint_ids
        present == \A i \in 1..Len(ids) : DictHas(LastValues, <<ids[i]>>)
        equal == \A i \in 1..Len(ids) : DictGet(LastValues, <<ids[i]>>) = <<op.enum.wire>>
    IN /\ result.kind = "return" => (present /\ equal)
       /\ ~present => (Raised(ClientError) /\ result.err.msg = "Endpoint ID missing")
       /\ (present /\ ~equal) => (Raised(ClientError) /\ result.err.msg = "does not match")

\* C11 amended: an enum write succeeds only if every declared response ID is
\* present with the written value; a response in which one is absent or holds
\* an empty value fails reporting it missing, a response with all of them
\* present and not empty but an unequal value fails reporting that it does
\* not match.
C11_EnumConfirmed ==
  (op.name = "_set_enum_endpoint" /\ UpdateAnswered) =>
    LET ids == op.endpoint.response_endpoint_ids
        present == \A i \in 1..Len(ids) : DictHas(LastValues, <<ids[i]>>)
        empty == \E i \in 1..Len(ids) : DictGet(LastValues, <<ids[i]>>) = <<>>
        equal == \A i \in 1..Len(ids) : DictGet(LastValues, <<ids[i]>>) = <<op.enum.wire>>
    IN /\ result.kind = "return" <=> (present /\ equal)
       /\ (~present \/ empty) =>
            (Raised(ClientError) /\ result.err.msg = "Endpoint ID missing")
       /\ (present /\ ~empty /\ ~equal) =>
            (Raised(ClientError) /\ result.err.msg = "does not match")

C11_Witness ==
  /\ op.name = "_set_enum_endpoint" /\ UpdateAnswered
  /\ op.endpoint.name = "home_away_mode"
  /\ DictHas(LastValues, <<"S_222_85">>)
  /\ DictGet(LastValues, <<"S_222_85">>) \notin {<<>>, <<op.enum.wire>>}
  /\ Raised(ClientError) /\ result.err.msg = "does not match"

\* C12: every update request of an enum write carries each of the endpoint's
\* control IDs with the written value and no other ID, all in the one request
\* (a second request is only the retry after a 404).
C12_AllControlIdsInOneRequest ==
  op.name = "_set_enum_endpoint" =>
    /\ \A i \in 1..Len(sent) : sent[i].path = "update" =>
         LET ids == op.endpoint.control_endpoint_ids
         IN /\ Len(sent[i].params) = Len(ids)
            /\ \A j \in 1..Len(ids) : sent[i].params[j] = <<ids[j], "=", op.enum.wire>>
            /\ op.endpoint.name = "home_away_mode" =>
                 {sent[i].params[j][1] : j \in 1..Len(sent[i].params)} = {"S_135_85", "S_222_85"}
    /\ Count(sent, "update") <= 2
    /\ (Len(replies) >= 1 /\ ~Is404(replies[1])) => Count(sent, "update") = 1

C12_Witness ==
  /\ Done /\ op.name = "_set_enum_endpoint" /\ op.endpoint.name = "home_away_mode"
  /\ result.kind = "return"
  /\ sent = <<Request("update", <<<<"S_135_85", "=", op.enum.wire>>,
                                   <<"S_222_85", "=", op.enum.wire>>>>)>>

\* C13: a successful set operation returns the confirmed typed value (the
\* int, the rounded float, the enumeration member), not the decoded response.
C13_ReturnsTypedValue ==
  (Done /\ op.name \in SetOps /\ result.kind = "return") =>
    /\ result.returns \in {"int", "float", op.endpoint.enum_type}
    /\ result.returns # "OumanResponse"

ViaSetEndpointValue == op.input # NoInput

\* C14: set_endpoint_value on an int-control endpoint fails before any request
\* for a float with a nonzero fraction (ValueError, "must be an integer") and
\* for a value that is not a number (TypeError, "must be numeric").
C14_IntEndpointRejectsNonInteger ==
  (ViaSetEndpointValue /\ op.endpoint.kind = "int") =>
    /\ (op.input.type = "float" /\ op.input.num % 100 # 0) =>
         /\ result = Raise(Err("ValueError", "must be an integer", "none", 0))
         /\ sent = <<>> /\ pc = "idle"
    /\ op.input.type \notin {"int", "float"} =>
         /\ result = Raise(Err("TypeError", "must be numeric", "none", 0))
         /\ sent = <<>> /\ pc = "idle"

C14_Witness ==
  /\ op.name = "set_endpoint_value" /\ op.endpoint = VALVE_POSITION_SETPOINT
  /\ op.input = [type |-> "float", num |-> 5050, wire |-> "none"]
  /\ Raised("ValueError") /\ sent = <<>>

\* C15: set_endpoint_value with an endpoint that is not controllable fails
\* with a TypeError ("not a controllable endpoint") and sends no request.
C15_NonControllableRejected ==
  (ViaSetEndpointValue /\ op.endpoint.control_endpoint_ids = <<>>) =>
    /\ result = Raise(Err("TypeError", "not a controllable endpoint", "none", 0))
    /\ sent = <<>> /\ pc = "idle"

C15_Witness ==
  /\ op.name = "set_endpoint_value" /\ op.endpoint = OUTSIDE_TEMPERATURE
  /\ op.input = [type |-> "float", num |-> 5000, wire |-> "none"]
  /\ Raised("TypeError") /\ sent = <<>> /\ pc = "idle"

Decoded_ == pc = "done" /\ op.name = "_parse_api_response"

WellFormedSegs(segs) == SelectSeq(segs, LAMBDA g : g.eq)

UniqueKeys(segs) ==
  \A i, j \in 1..Len(segs) : (segs[i].eq /\ segs[j].eq /\ i # j) => segs[i].key # segs[j].key

\* C16: a text prefix?k1=v1;k2=v2;NUL decodes to the text before the first
\* '?' as prefix and a mapping with exactly one entry per key=value segment,
\* in order, keys and values without their surrounding whitespace, the value
\* being everything after the segment's first '=', the NUL segment dropped.
C16_DecodeWellFormed ==
  (/\ Decoded_ /\ op.tail = NulTail /\ UniqueKeys(op.segs)
   /\ \A i \in 1..Len(op.segs) : op.segs[i].eq) =>
    /\ result.kind = "return"
    /\ result.response.prefix = op.prefix
    /\ Len(result.response.values) = Len(op.segs)
    /\ \A i \in 1..Len(op.segs) :
         result.response.values[i] = [k |-> op.segs[i].key, v |-> op.segs[i].value]

C16_Witness ==
  /\ Decoded_ /\ op.tail = NulTail /\ op.prefix = <<"request">>
  /\ op.segs = <<Seg(<<"k2">>, <<"v">>, TRUE), Seg(<<"k1">>, <<"a", "=", "b", "?">>, FALSE)>>
  /\ result.response.values = <<[k |-> <<"k2">>, v |-> <<"v">>],
                                [k |-> <<"k1">>, v |-> <<"a", "=", "b", "?">>]>>

\* C17: decoding a text with a '?' never fails; the segments without '=' are
\* skipped, the mapping being that of the same body without them, and every
\* segment with '=' keeps its own key and value (keys being unique),
\* wherever the malformed segments stand and however many they are.
C17_MalformedSkipped ==
  Decoded_ =>
    LET wf == WellFormedSegs(op.segs)
    IN /\ result.kind = "return"
       /\ result.response.values =
            _parse_api_response(ResponseText([op EXCEPT !.segs = wf])).values
       /\ \A i \in 1..Len(op.segs) :
            op.segs[i].eq => DictHas(result.response.values, op.segs[i].key)
       /\ UniqueKeys(op.segs) =>
            /\ Len(result.response.values) = Len(wf)
            /\ \A i \in 1..Len(wf) :
                 result.response.values[i] = [k |-> wf[i].key, v |-> wf[i].value]

C17_Witness ==
  /\ Decoded_ /\ op.tail = NulTail
  /\ op.segs = <<Malformed(<<"junk">>), Seg(<<"k1">>, <<"v">>, FALSE), Malformed(<<NUL>>)>>
  /\ result.response.values = <<[k |-> <<"k1">>, v |-> <<"v">>]>>

\* Each param followed by ';'.
RECURSIVE EachThenSemicolon(_)
EachThenSemicolon(params) ==
  IF params = <<>> THEN <<>>
  ELSE Head(params) \o <<";">> \o EachThenSemicolon(Tail(params))

\* C18: for every path and every ordered list of params, the empty one
\* included, the encoded target is base/path? followed by the params in
\* their order, each followed by ';', and the timestamp param last, which
\* ends in '='.
C18_EncodedTarget ==
  (pc = "done" /\ op.name = "_construct_request_url") =>
    /\ result.text = address \o <<"/">> \o op.path \o <<"?">>
                       \o EachThenSemicolon(op.params) \o op.now \o <<"=">>
    /\ result.text[Len(result.text)] = "="

C18_Witness ==
  /\ pc = "done" /\ op.name = "_construct_request_url"
  /\ op.path = <<"update">>
  /\ op.params = <<<<"S_135_85", "=", "1">>, <<"S_227_85">>>>
  /\ result.text = address \o <<"/", "update", "?", "S_135_85", "=", "1", ";", "S_227_85", ";">>
                     \o op.now \o <<"=">>

Constructed == pc = "done" /\ op.name = "OumanRegistrySet"

\* C19: a RegistrySet built from a list holding the same registry more than
\* once fails with a ValueError ("Multiple of the same registry"); built
\* from the empty list it succeeds with no registries and no endpoints.
C19_DuplicateRegistryRejected ==
  Constructed =>
    /\ (\E i, j \in 1..Len(op.registries) : i < j /\ op.registries[i] = op.registries[j]) =>
         /\ Raised("ValueError")
         /\ result.err.msg = "Multiple of the same registry"
    /\ op.registries = <<>> =>
         /\ result.kind = "return"
         /\ result.registries = <<>>
         /\ result.endpoints = <<>>

C19_Witness ==
  /\ Constructed /\ op.registries = <<"SystemEndpoints", "SystemEndpoints">>
  /\ Raised("ValueError") /\ result.err.msg = "Multiple of the same registry"

\* The sensor IDs two different positions of the list both contribute, each
\* registry's endpoints being those it iterates.
SharedIds(registries) ==
  LET ids == [i \in 1..Len(registries) |->
                LET endpoints == iterate_endpoints(Class(registries[i]))
                IN {endpoints[n].sensor_endpoint_id : n \in 1..Len(endpoints)}]
  IN UNION {IF p[1] < p[2] THEN ids[p[1]] \cap ids[p[2]] ELSE {} :
              p \in (1..Len(registries)) \X (1..Len(registries))}

\* C20: a RegistrySet in which two registries contribute endpoints with the
\* same sensor_endpoint_id fails with a ValueError, which, no registry being
\* repeated, is "Conflicting endpoint IDs" and names the shared IDs; in
\* every set that was constructed each sensor ID belongs to exactly one
\* endpoint.
C20_ConflictingIdsRejected ==
  Constructed =>
    /\ SharedIds(op.registries) # {} =>
         /\ Raised("ValueError")
         /\ ~HasDuplicates(op.registries) =>
              /\ result.err.msg = "Conflicting endpoint IDs"
              /\ SharedIds(op.registries) \subseteq result.ids
    /\ result.kind = "return" =>
         \A i, j \in 1..Len(result.endpoints) :
           result.endpoints[i].sensor_endpoint_id = result.endpoints[j].sensor_endpoint_id
             => i = j

C20_Witness ==
  /\ Constructed
  /\ op.registries = <<"SystemEndpoints", "L1Endpoints", "L1EndpointsWithRoomSensor">>
  /\ Raised("ValueError") /\ result.err.msg = "Conflicting endpoint IDs"
  /\ "S_59_85" \in result.ids

Iterated == pc = "done" /\ op.name = "iterate_endpoints"

OwnDict == Class(op.registries[1]).dict

ParentDict ==
  IF Class(op.registries[1]).bases = <<>> THEN <<>>
  ELSE Class(Class(op.registries[1]).bases[1]).dict

InSeq(x, seq) == \E i \in 1..Len(seq) : seq[i] = x

\* C21: iterating a registry yields each attribute name once: the registry's
\* own endpoint for every name it declares, the parent's endpoint for every
\* name it does not redeclare, and never the parent's endpoint under a
\* redeclared name; L1EndpointsWithRoomSensor yields one fine-tuning
\* endpoint, with sensor ID S_102_85.
C21_OverrideYieldedOnce ==
  Iterated =>
    LET yielded == result.endpoints
        own == {OwnDict[i].key : i \in 1..Len(OwnDict)}
    IN /\ \A i, j \in 1..Len(yielded) : yielded[i].key = yielded[j].key => i = j
       /\ \A i \in 1..Len(OwnDict) : InSeq(OwnDict[i], yielded)
       /\ \A i \in 1..Len(ParentDict) :
            InSeq(ParentDict[i], yielded) <=> ParentDict[i].key \notin own
       /\ \A i \in 1..Len(yielded) : InSeq(yielded[i], OwnDict) \/ InSeq(yielded[i], ParentDict)
       /\ op.registries = <<"L1EndpointsWithRoomSensor">> =>
            \A i \in 1..Len(yielded) :
              yielded[i].key = "ROOM_TEMPERATURE_FINE_TUNING"
                => yielded[i].sensor_endpoint_id = "S_102_85"

C21_Witness ==
  /\ Iterated /\ op.registries = <<"L1EndpointsWithRoomSensor">>
  /\ Len(result.endpoints) = 20
  /\ Cardinality({i \in 1..Len(result.endpoints) :
                    result.endpoints[i].name = "l1_room_temperature_fine_tuning"}) = 1
  /\ \E i \in 1..Len(result.endpoints) : result.endpoints[i].sensor_endpoint_id = "S_102_85"
  /\ \A i \in 1..Len(result.endpoints) : result.endpoints[i].sensor_endpoint_id # "S_134_85"

\* C22: whatever the three probes read, get_active_registries returns a set
\* with SystemEndpoints, exactly one of L1Endpoints and
\* L1EndpointsWithRoomSensor (the variant exactly when the loop-1 room sensor
\* reads other than "off") and, exactly when loop 2 is installed, exactly one
\* of L2Endpoints and L2EndpointsWithRoomSensor; the set repeats no registry
\* and no two of its registries share a sensor ID.
C22_ActiveRegistriesConsistent ==
  (pc = "done" /\ op.name = "get_active_registries") =>
    LET has(name) == InSeq(name, result.registries)
        l1_sensor == op.probes.l1_room_sensor # "off"
        l2 == op.probes.l2_installed # "0"
        l2_sensor == op.probes.l2_room_sensor # "off"
    IN /\ result.kind = "return"
       /\ has("SystemEndpoints")
       /\ has("L1EndpointsWithRoomSensor") <=> l1_sensor
       /\ has("L1Endpoints") <=> ~l1_sensor
       /\ has("L2EndpointsWithRoomSensor") <=> (l2 /\ l2_sensor)
       /\ has("L2Endpoints") <=> (l2 /\ ~l2_sensor)
       /\ \A i, j \in 1..Len(result.registries) :
            result.registries[i] = result.registries[j] => i = j
       /\ SharedIds(result.registries) = {}
       /\ \A i, j \in 1..Len(result.endpoints) :
            result.endpoints[i].sensor_endpoint_id = result.endpoints[j].sensor_endpoint_id
              => i = j

C22_Witness ==
  /\ pc = "done" /\ op.name = "get_active_registries"
  /\ op.probes = [l2_installed |-> "1", l1_room_sensor |-> "on", l2_room_sensor |-> "on"]
  /\ result.registries =
       <<"SystemEndpoints", "L1EndpointsWithRoomSensor", "L2EndpointsWithRoomSensor">>
  /\ Len(result.endpoints) = 44

Computations(fn, cls) ==
  Cardinality({i \in 1..Len(computed) : computed[i] = [fn |-> fn, cls |-> cls]})

\* C26: over any sequence of get_sensor_endpoint_ids and
\* get_endpoint_by_sensor_id calls on any mix of registries, each registry's
\* ID list and each registry's sensor-ID map are computed at most once.
C26_ComputedAtMostOnce ==
  \A cls \in CacheClasses :
    /\ Computations("get_sensor_endpoint_ids", cls) <= 1
    /\ Computations("_sensor_id_endpoint_map", cls) <= 1

\* The endpoints of the registry's own iteration that carry the sensor ID.
Carrying(cls, id) ==
  LET endpoints == iterate_endpoints(Class(cls))
  IN {endpoints[i] : i \in {i \in 1..Len(endpoints) : endpoints[i].sensor_endpoint_id = id}}

\* C27: whatever lookups on other registries went before, a registry's
\* get_endpoint_by_sensor_id returns the endpoint of its own iteration that
\* carries the ID and None when there is none: an unknown ID gives None, and
\* so does, in L1EndpointsWithRoomSensor, the sensor ID of the parent's
\* overridden fine-tuning endpoint.
C27_LookupIsOwnEndpoint ==
  op.name = "get_endpoint_by_sensor_id" =>
    /\ \A e \in Carrying(op.cls, op.id) :
         result.returns = "OumanEndpoint" /\ result.endpoint = e
    /\ Carrying(op.cls, op.id) = {} => result = ReturnNone
    /\ op.id = "S_9_9" => result = ReturnNone
    /\ (op.cls = "L1EndpointsWithRoomSensor" /\ op.id = "S_134_85") => result = ReturnNone

C27_Witness ==
  /\ op = CacheCall("get_endpoint_by_sensor_id", "L1EndpointsWithRoomSensor", "S_102_85", 3)
  /\ computed = <<[fn |-> "_sensor_id_endpoint_map", cls |-> "L1EndpointsWithRoomSensor"],
                  [fn |-> "_sensor_id_endpoint_map", cls |-> "L1Endpoints"],
                  [fn |-> "_sensor_id_endpoint_map", cls |-> "L1EndpointsWithRoomSensor"]>>
  /\ result.returns = "OumanEndpoint"
  /\ result.endpoint.key = "ROOM_TEMPERATURE_FINE_TUNING"
  /\ result.endpoint.sensor_endpoint_id = "S_102_85"

\* The positions of the segments with '=' that carry the key.
Occurrences(segs, key) == {i \in 1..Len(segs) : segs[i].eq /\ segs[i].key = key}

Max(set) == CHOOSE n \in set : \A m \in set : m <= n

\* C25: when a key occurs more than once in a body, the decoded mapping holds
\* one entry for it, with the value of its last occurrence; every other key
\* keeps its own entry and value.
C25_LastOccurrenceWins ==
  Decoded_ =>
    \A k \in {op.segs[i].key : i \in {i \in 1..Len(op.segs) : op.segs[i].eq}} :
      /\ Cardinality({n \in 1..Len(result.response.values) :
                        result.response.values[n].k = k}) = 1
      /\ DictGet(result.response.values, k) = op.segs[Max(Occurrences(op.segs, k))].value

C25_Witness ==
  /\ Decoded_ /\ op.tail = NulTail
  /\ op.segs = <<Seg(<<"k1">>, <<"v">>, FALSE), Seg(<<"k2">>, <<"v">>, FALSE),
                 Seg(<<"k1">>, <<"a", "=", "b", "?">>, FALSE)>>
  /\ result.response.values = <<[k |-> <<"k1">>, v |-> <<"a", "=", "b", "?">>],
                                [k |-> <<"k2">>, v |-> <<"v">>]>>

GotValues == Done /\ op.name = "get_values" /\ Len(replies) = 1 /\ Decoded(replies[1])

Requested == {sent[1].params[i][1] : i \in 1..Len(sent[1].params)}

AnsweredKeys ==
  LET values == _parse_api_response(replies[1].body).values
  IN {values[i].k : i \in 1..Len(values)}

\* C23: get_values sends exactly one read request, which carries every sensor
\* ID of the requested set, and completes without error when the response
\* lacks requested keys, each reported as missing, and when it holds keys that
\* were not requested, each reported as unexpected.
C23_OneRequestLenient ==
  (op.name = "get_values" /\ sent # <<>>) =>
    /\ Len(sent) = 1 /\ sent[1].path = "request"
    /\ \A i \in 1..Len(ENDPOINTS) : ENDPOINTS[i] \in Requested
    /\ GotValues =>
         /\ result.kind = "return"
         /\ \A id \in Requested : <<id>> \notin AnsweredKeys =>
              <<"not found in response", id>> \in result.warnings
         /\ \A k \in AnsweredKeys : (Len(k) # 1 \/ k[1] \notin Requested) =>
              \E w \in result.warnings : w[1] = "Unexpected endpoint ID"

\* C24: get_values returns a mapping keyed by endpoint with exactly one entry
\* for each response key that is a sensor ID of the set and none for any
\* other key, each value converted by the endpoint's kind.
C24_ReturnsTypedMapping ==
  GotValues =>
    /\ result.kind = "return"
    /\ result.returns = "dict"
    /\ {result.values[i].k : i \in 1..Len(result.values)}
         = {k[1] : k \in {k \in AnsweredKeys : Len(k) = 1 /\ k[1] \in Requested}}

\* The answer to a login that makes login() raise: no answer, an error
\* status, a body that cannot be decoded, or a result other than ok.
LoginFails(o) ==
  \/ o.t # "http"
  \/ o.status >= 400
  \/ ~Contains(o.body, "?")
  \/ ~ResultIs(_parse_api_response(o.body), "ok")

\* C28: when the login that follows a 404 on update fails (credentials
\* rejected, a communication failure, or an unexpected response), that
\* failure is what the write raises and no second update is sent.
C28_LoginFailureIsTerminal ==
  (op.name \in SetOps /\ Len(replies) >= 2 /\ Is404(replies[1]) /\ LoginFails(replies[2])) =>
    /\ Done /\ Len(replies) = 2
    /\ sent = <<UpdateRequest(op), LoginRequest>>
    /\ result.kind = "raise"
    /\ (replies[2].t # "http" \/ replies[2].status >= 400) => Raised(CommunicationError)
    /\ (Decoded(replies[2]) /\ ResultIs(_parse_api_response(replies[2].body), "error"))
         => Raised(AuthenticationError)
    /\ (/\ Decoded(replies[2])
        /\ ~ResultIs(_parse_api_response(replies[2].body), "error")) => Raised(ClientError)

C28_Witness ==
  /\ Done /\ op.name = "_set_int_endpoint"
  /\ Len(replies) = 2 /\ Is404(replies[1])
  /\ replies[2] = Http(200, Body("login", <<<<"result", "=", "error">>>>))
  /\ Raised(AuthenticationError)
  /\ Count(sent, "update") = 1

\* C30: every update a set operation sends for an int or float control,
\* the retried one included, carries a value within the endpoint's min_val
\* and max_val; for a float control that is the rounded value transmitted.
C30_SentValueInBounds ==
  (op.name \in {"_set_int_endpoint", "_set_float_endpoint"}) =>
    \A i \in 1..Len(sent) : sent[i].path = "update" =>
      LET v == ParseFloat(ParamValue(sent[i]))
          scale == IF op.endpoint.kind = "float" THEN 2 ELSE 0
      IN /\ v.ok /\ v.places <= scale
         /\ op.endpoint.min_val <= v.mant * Pow10(scale - v.places)
         /\ v.mant * Pow10(scale - v.places) <= op.endpoint.max_val

C30_Witness ==
  /\ Done /\ op.name = "_set_float_endpoint" /\ op.value = 399
  /\ Len(sent) = 3 /\ sent[3].path = "update"
  /\ ParamValue(sent[3]) = <<"4", ".", "0">>
  /\ result.kind = "return"

\* C29: whatever the session's state, a write of a valid value to a device
\* that answers 404 to an update without a session, accepts the configured
\* credentials and echoes the written value eventually returns, with the
\* session authenticated, the caller never having called login.
C29_WriteEventuallySucceeds ==
  (pc = "await_update" /\ op.name \in SetOps)
    ~> (/\ Done /\ op.name \in SetOps /\ result.kind = "return"
        /\ session = "authenticated")

C29_Witness ==
  /\ Done /\ op.name = "_set_float_endpoint" /\ result.kind = "return"
  /\ session = "authenticated"
  /\ Len(sent) = 3 /\ sent[2] = LoginRequest /\ Is404(replies[1])
  /\ replies[3] = Http(200, EchoBody(op, ParamValue(sent[3])))

====
